---- MODULE Spec2Model ----
(***************************************************************************)
(* Behavioural anomaly-detection engine of the keystroke/voice             *)
(* authentication project: feature normalisation, the three-layer          *)
(* autoencoder, the trainers (server route and extension library) and the  *)
(* authenticators (server route, extension library, background script).    *)
(*                                                                         *)
(* JavaScript numbers are modelled as fixed-point integers: the number x   *)
(* is the integer x * Scale.  NaN, undefined and null are three values     *)
(* outside the numeric range, with JavaScript's coercions (undefined ->    *)
(* NaN, null -> 0) applied by every arithmetic operator.                   *)
(***************************************************************************)
EXTENDS Integers, Sequences, FiniteSets, TLC

\* ------------------------------------------------------------------------
\* Bounds of the model (not program constants)
\* ------------------------------------------------------------------------

\* Input dimension of the trained model (34 keystroke features in the program).
Dim == 2
\* Hidden layer width used by the model's networks (16 in the program).
HiddenSize == 2
\* Bottleneck width used by the model's networks (8 in the program).
BottleneckSize == 1
\* Training epochs run by the model (200 in the program).
Epochs == 2

\* ------------------------------------------------------------------------
\* Numbers
\* ------------------------------------------------------------------------

\* Fixed-point resolution: the number 1 is represented as Scale.
Scale == 10 * 1000

NaN == -2000000001
Undefined == -2000000002
Null == -2000000003

One == Scale

\* n / d as a fixed-point literal, e.g. Lit(3, 100) is 0.03.
Lit(n, d) == (n * Scale) \div d

\* Integer quotient rounded toward zero.
Quot(a, b) ==
  LET s == IF (a < 0) = (b < 0) THEN 1 ELSE -1
      x == IF a < 0 THEN -a ELSE a
      y == IF b < 0 THEN -b ELSE b
  IN s * (x \div y)

\* ToNumber: undefined -> NaN, null -> 0.
Num(x) == IF x = Undefined THEN NaN ELSE IF x = Null THEN 0 ELSE x

IsNaN(x) == Num(x) = NaN

Add(a, b) == IF IsNaN(a) \/ IsNaN(b) THEN NaN ELSE Num(a) + Num(b)
Sub(a, b) == IF IsNaN(a) \/ IsNaN(b) THEN NaN ELSE Num(a) - Num(b)
\* The product of two fixed-point numbers, rounded toward zero (computed in
\* two parts so that the intermediate product stays small).
MulFixed(a, b) ==
  LET s == IF (a < 0) = (b < 0) THEN 1 ELSE -1
      x == IF a < 0 THEN -a ELSE a
      y == IF b < 0 THEN -b ELSE b
  IN s * ((x \div Scale) * y + ((x % Scale) * y) \div Scale)
Mul(a, b) == IF IsNaN(a) \/ IsNaN(b) THEN NaN ELSE MulFixed(Num(a), Num(b))
\* Divisors in the program are lengths >= 1, non-zero ranges and positive
\* error bounds; 0/0 is NaN.
DivFixed(a, b) ==
  LET s == IF (a < 0) = (b < 0) THEN 1 ELSE -1
      x == IF a < 0 THEN -a ELSE a
      y == IF b < 0 THEN -b ELSE b
  IN s * ((x \div y) * Scale + ((x % y) * Scale) \div y)
Div(a, b) ==
  IF IsNaN(a) \/ IsNaN(b) \/ Num(b) = 0 THEN NaN ELSE DivFixed(Num(a), Num(b))
\* Division and multiplication by a plain integer count (an array length).
DivInt(a, n) == IF IsNaN(a) \/ n = 0 THEN NaN ELSE Quot(Num(a), n)
MulInt(a, n) == IF IsNaN(a) THEN NaN ELSE Num(a) * n

\* a <= b and a > b: false when either side is NaN.
Le(a, b) == ~IsNaN(a) /\ ~IsNaN(b) /\ Num(a) <= Num(b)
Gt(a, b) == ~IsNaN(a) /\ ~IsNaN(b) /\ Num(a) > Num(b)

\* Math.max / Math.min of two arguments: NaN if either is NaN.
MathMax(a, b) ==
  IF IsNaN(a) \/ IsNaN(b) THEN NaN ELSE IF Num(a) >= Num(b) THEN Num(a) ELSE Num(b)
MathMin(a, b) ==
  IF IsNaN(a) \/ IsNaN(b) THEN NaN ELSE IF Num(a) <= Num(b) THEN Num(a) ELSE Num(b)
MathAbs(a) == IF IsNaN(a) THEN NaN ELSE IF Num(a) < 0 THEN -Num(a) ELSE Num(a)

\* JavaScript truthiness of a number-or-missing value, and a || b.
Truthy(a) == a \notin {Undefined, Null, NaN, 0}
OrElse(a, b) == IF Truthy(a) THEN a ELSE b

\* arr[i] of a JavaScript array (1-based here): undefined outside the array.
Get(arr, i) == IF i \in DOMAIN arr THEN arr[i] ELSE Undefined

\* A field of a parsed JSON object is present (and, for the objects and
\* arrays read here, truthy).
Has(obj, name) == name \in DOMAIN obj

\* An exception on its way to the enclosing catch block.
Thrown(message) == [thrown |-> message]
IsThrown(result) == Has(result, "thrown")

\* JSON.stringify followed by JSON.parse of a number: NaN becomes null.
JsonNumber(x) == IF x = NaN \/ x = Undefined THEN Null ELSE x
JsonArray(arr) == [i \in DOMAIN arr |-> JsonNumber(arr[i])]
JsonMatrix(m) == [i \in DOMAIN m |-> JsonArray(m[i])]

\* ------------------------------------------------------------------------
\* Activations
\* ------------------------------------------------------------------------

reluActivation(x) == MathMax(0, x)

\* The logistic function at the integers 0..10, in units of 1/10000.
SigmoidTable == <<5000, 7311, 8808, 9526, 9820, 9933, 9975, 9991, 9997, 9999, 10000>>

\* 1 / (1 + exp(-clamp(x, -500, 500))): the logistic function, interpolated
\* linearly between its values at the integers and saturated beyond +-10.
SigmoidPos(x) ==
  LET k == x \div Scale
      r == x - k * Scale
  IN IF k >= 10 THEN One
     ELSE LET lo == (SigmoidTable[k + 1] * Scale) \div 10000
              hi == (SigmoidTable[k + 2] * Scale) \div 10000
          IN lo + ((hi - lo) * r) \div Scale

sigmoidActivation(x) ==
  IF IsNaN(x) THEN NaN
  ELSE LET c == MathMax(-500 * Scale, MathMin(500 * Scale, x))
       IN IF c >= 0 THEN SigmoidPos(c) ELSE One - SigmoidPos(-c)

\* ------------------------------------------------------------------------
\* Math.random
\* ------------------------------------------------------------------------

\* Math.random() is a pseudo-random generator whose hidden state is unknown
\* when a handler starts: a linear congruential generator started from a
\* seed that the handler's action picks nondeterministically.
RngModulus == 16
RngMultiplier == 5
RngIncrement == 3
Seeds == {1, 6}

RECURSIVE RngState(_, _)
RngState(seed, n) ==
  IF n = 0 THEN seed
  ELSE (RngMultiplier * RngState(seed, n - 1) + RngIncrement) % RngModulus

\* The value in [0, 1) returned by the n-th call of Math.random() (n >= 1).
\* The generator has full period RngModulus, so call n and call
\* n % RngModulus return the same value.
MathRandom(seed, n) == (RngState(seed, n % RngModulus) * Scale) \div RngModulus

\* Math.sqrt, rounded down to the resolution.
RECURSIVE ISqrtSearch(_, _, _)
ISqrtSearch(n, lo, hi) ==
  IF lo >= hi THEN lo
  ELSE LET mid == (lo + hi + 1) \div 2
       IN IF mid * mid <= n THEN ISqrtSearch(n, mid, hi) ELSE ISqrtSearch(n, lo, mid - 1)
MathSqrt(x) == ISqrtSearch(x * Scale, 0, 4 * Scale)

\* ------------------------------------------------------------------------
\* Autoencoder (server: train-model route and authenticate route)
\* ------------------------------------------------------------------------

\* v, built in full: the program computes every array before it uses it.
Force(v) == IF v = v THEN v ELSE v

RECURSIVE WeightedSum(_, _, _, _, _)
\* acc + sum over j = from..nIn of input[j] * weights[j][i]; a missing
\* input[j] is undefined, so the product is NaN.
WeightedSum(acc, input, weights, i, j) ==
  IF j > Len(weights) THEN acc
  ELSE WeightedSum(Add(acc, Mul(Get(input, j), weights[j][i])), input, weights, i, j + 1)

\* The activation applied to a layer's weighted sum (the output layer of the
\* extension's network is linear).
Activate(activation, weightedSum) ==
  IF activation = "relu" THEN reluActivation(weightedSum)
  ELSE IF activation = "sigmoid" THEN sigmoidActivation(weightedSum)
  ELSE weightedSum

\* One dense layer: act(biases[i] + sum_j input[j] * weights[j][i]), i = 1..nOut.
DenseLayer(input, weights, biases, nOut, activation) ==
  Force([i \in 1..nOut |-> Activate(activation, WeightedSum(biases[i], input, weights, i, 1))])

\* SimpleAutoencoder.initializeNetworkWeights of the train-model route: the
\* k-th entry (row-major) is (Math.random() * 2 - 1) * sqrt(2 / inputSize).
initializeNetworkWeights(inputSize, outputSize, seed, calls) ==
  Force([i \in 1..inputSize |->
          [j \in 1..outputSize |->
            Mul(Sub(MulInt(MathRandom(seed, calls + (i - 1) * outputSize + j), 2), One),
                MathSqrt(Lit(2, inputSize)))]])

\* new Array(n).fill(0).map(() => Math.random() * 0.1 - 0.05)
InitBiases(n, seed, calls) ==
  Force([i \in 1..n |-> Sub(Mul(MathRandom(seed, calls + i), Lit(1, 10)), Lit(5, 100))])

\* new SimpleAutoencoder(inputDimensions, hiddenLayerSize, bottleneckDimensions)
\* in the train-model route, after `calls` earlier calls of Math.random().
NewAutoencoder(inputDimensions, hiddenLayerSize, bottleneckDimensions, seed, calls) ==
  LET c1 == calls
      c2 == c1 + inputDimensions * hiddenLayerSize
      c3 == c2 + hiddenLayerSize * bottleneckDimensions
      c4 == c3 + bottleneckDimensions * inputDimensions
      c5 == c4 + hiddenLayerSize
      c6 == c5 + bottleneckDimensions
  IN [inputDimensions |-> inputDimensions,
      hiddenLayerSize |-> hiddenLayerSize,
      bottleneckDimensions |-> bottleneckDimensions,
      encoderWeights |-> initializeNetworkWeights(inputDimensions, hiddenLayerSize, seed, c1),
      bottleneckWeights |-> initializeNetworkWeights(hiddenLayerSize, bottleneckDimensions, seed, c2),
      decoderWeights |-> initializeNetworkWeights(bottleneckDimensions, inputDimensions, seed, c3),
      encoderBiases |-> InitBiases(hiddenLayerSize, seed, c4),
      bottleneckBiases |-> InitBiases(bottleneckDimensions, seed, c5),
      decoderBiases |-> InitBiases(inputDimensions, seed, c6)]

\* The last two layers of a forward pass, from the hidden layer's output.
ForwardFromBottleneck(ae, hiddenOutput, bottleneckOutput, outputActivation) ==
  [hiddenOutput |-> hiddenOutput,
   bottleneckOutput |-> bottleneckOutput,
   finalOutput |-> DenseLayer(bottleneckOutput, ae.decoderWeights, ae.decoderBiases,
                              ae.inputDimensions, outputActivation)]
ForwardFromHidden(ae, hiddenOutput, outputActivation) ==
  ForwardFromBottleneck(ae, hiddenOutput,
                        DenseLayer(hiddenOutput, ae.bottleneckWeights, ae.bottleneckBiases,
                                   ae.bottleneckDimensions, "relu"),
                        outputActivation)

\* The three layers of every forward pass in the program: ReLU, ReLU and the
\* given output activation; the loops run over the network's own sizes.
ThreeLayers(ae, inputData, outputActivation) ==
  ForwardFromHidden(ae,
                    DenseLayer(inputData, ae.encoderWeights, ae.encoderBiases,
                               ae.hiddenLayerSize, "relu"),
                    outputActivation)

\* SimpleAutoencoder.forwardPass of the train-model route.
forwardPass(ae, inputData) == ThreeLayers(ae, inputData, "sigmoid")

\* SimpleAutoencoder.predict of the train-model route.
TrainerPredict(ae, inputSample) == forwardPass(ae, inputSample).finalOutput

\* SimpleAutoencoder.predict of the authenticate route.
RoutePredict(ae, inputFeatures) == ThreeLayers(ae, inputFeatures, "sigmoid").finalOutput

RECURSIVE SquaredErrorSum(_, _, _, _)
\* sum over i = from..n of (a[i] - b[i])^2; a missing entry is undefined.
SquaredErrorSum(a, b, i, n) ==
  IF i > n THEN 0
  ELSE LET d == Sub(Get(a, i), Get(b, i))
       IN Add(Mul(d, d), SquaredErrorSum(a, b, i + 1, n))

\* The mean squared error loop shared by the trainers and authenticators:
\* it runs over the first n entries of both arrays and divides by n.
MeanSquaredError(a, b, n) == DivInt(SquaredErrorSum(a, b, 1, n), n)

RECURSIVE GradientSum(_, _, _, _)
\* sum over j of gradients[j] * weights[i][j]
GradientSum(gradients, weights, i, j) ==
  IF j > Len(gradients) THEN 0
  ELSE Add(Mul(gradients[j], weights[i][j]), GradientSum(gradients, weights, i, j + 1))

\* weights[i][j] += learningRate * gradients[j] * activations[i]
UpdateWeights(weights, gradients, activations, learningRate) ==
  Force([i \in DOMAIN weights |->
          [j \in DOMAIN weights[i] |->
            Add(weights[i][j], Mul(Mul(learningRate, gradients[j]), Get(activations, i)))]])

\* biases[i] += learningRate * gradients[i]
UpdateBiases(biases, gradients, learningRate) ==
  Force([i \in DOMAIN biases |-> Add(biases[i], Mul(learningRate, gradients[i]))])

\* gradient * (activation > 0 ? 1 : 0)
ReluGate(gradient, activation) == MulInt(gradient, IF Gt(activation, 0) THEN 1 ELSE 0)

\* The gradients of a hidden layer: the layer above's gradients through its
\* (already updated) weights, gated by this layer's activations.
LayerGradients(n, gradientsAbove, weightsAbove, activations) ==
  Force([i \in 1..n |->
          ReluGate(GradientSum(gradientsAbove, weightsAbove, i, 1), activations[i])])

\* SimpleAutoencoder.updateNetworkWeights, the encoder layer and the result.
UpdateEncoderLayer(ae, originalInput, learningRate, outputGradients, decoderWeights, bottleneckGradients, bottleneckWeights, hiddenGradients) ==
  [ae EXCEPT !.encoderWeights =
               UpdateWeights(ae.encoderWeights, hiddenGradients, originalInput, learningRate),
             !.bottleneckWeights = bottleneckWeights,
             !.decoderWeights = decoderWeights,
             !.encoderBiases = UpdateBiases(ae.encoderBiases, hiddenGradients, learningRate),
             !.bottleneckBiases =
               UpdateBiases(ae.bottleneckBiases, bottleneckGradients, learningRate),
             !.decoderBiases = UpdateBiases(ae.decoderBiases, outputGradients, learningRate)]

\* SimpleAutoencoder.updateNetworkWeights, the bottleneck layer onwards.
UpdateBottleneckWeights(ae, originalInput, hiddenActivations, learningRate, outputGradients, decoderWeights, bottleneckGradients, bottleneckWeights) ==
  UpdateEncoderLayer(ae, originalInput, learningRate, outputGradients, decoderWeights,
                     bottleneckGradients, bottleneckWeights,
                     LayerGradients(ae.hiddenLayerSize, bottleneckGradients, bottleneckWeights,
                                    hiddenActivations))
UpdateBottleneckLayer(ae, originalInput, hiddenActivations, learningRate, outputGradients, decoderWeights, bottleneckGradients) ==
  UpdateBottleneckWeights(ae, originalInput, hiddenActivations, learningRate, outputGradients,
                          decoderWeights, bottleneckGradients,
                          UpdateWeights(ae.bottleneckWeights, bottleneckGradients,
                                        hiddenActivations, learningRate))

\* SimpleAutoencoder.updateNetworkWeights, the decoder layer onwards.
UpdateDecoderWeights(ae, originalInput, hiddenActivations, bottleneckActivations, learningRate, outputGradients, decoderWeights) ==
  UpdateBottleneckLayer(ae, originalInput, hiddenActivations, learningRate, outputGradients,
                        decoderWeights,
                        LayerGradients(ae.bottleneckDimensions, outputGradients,
                                       decoderWeights, bottleneckActivations))
UpdateDecoderLayer(ae, originalInput, hiddenActivations, bottleneckActivations, learningRate, outputGradients) ==
  UpdateDecoderWeights(ae, originalInput, hiddenActivations, bottleneckActivations,
                       learningRate, outputGradients,
                       UpdateWeights(ae.decoderWeights, outputGradients,
                                     bottleneckActivations, learningRate))

\* SimpleAutoencoder.updateNetworkWeights: one backpropagation step.  Each
\* layer's weights are updated before the gradient of the layer below is
\* computed from them, as in the code.
updateNetworkWeights(ae, originalInput, hiddenActivations, bottleneckActivations, networkOutput, learningRate) ==
  UpdateDecoderLayer(ae, originalInput, hiddenActivations, bottleneckActivations,
                     learningRate,
                     Force([i \in 1..ae.inputDimensions |->
                             Mul(Mul(Sub(Get(originalInput, i), networkOutput[i]),
                                     networkOutput[i]),
                                 Sub(One, networkOutput[i]))]))

\* The body of trainNetwork's inner loop for one sample, after the forward
\* pass: the network after the update and the sample's loss.
TrainStepFrom(ae, trainingSample, learningRate, f) ==
  [ae |-> updateNetworkWeights(ae, trainingSample, f.hiddenOutput, f.bottleneckOutput,
                               f.finalOutput, learningRate),
   loss |-> MeanSquaredError(trainingSample, f.finalOutput, ae.inputDimensions)]
TrainStep(ae, trainingSample, learningRate) ==
  TrainStepFrom(ae, trainingSample, learningRate, forwardPass(ae, trainingSample))

\* The loop state after sample k of n: after the epoch's last sample the
\* average loss is pushed and the next epoch starts from a total of 0.
AfterStep(st, n, k, s) ==
  IF k = n
  THEN [ae |-> s.ae, epochTotalLoss |-> 0,
        trainingLosses |-> Append(st.trainingLosses,
                                  DivInt(Add(st.epochTotalLoss, s.loss), n))]
  ELSE [ae |-> s.ae, epochTotalLoss |-> Add(st.epochTotalLoss, s.loss),
        trainingLosses |-> st.trainingLosses]

\* One iteration of trainNetwork's inner loop, numbered t over all epochs:
\* sample (t - 1) % n + 1 of the epoch.
TrainIteration(st, trainingData, t, learningRate) ==
  AfterStep(st, Len(trainingData), ((t - 1) % Len(trainingData)) + 1,
            TrainStep(st.ae, trainingData[((t - 1) % Len(trainingData)) + 1], learningRate))

RECURSIVE TrainIterations(_, _, _, _, _)
RECURSIVE ContinueIterations(_, _, _, _, _)
\* Iterations lo..hi in order, the first half finished before the second
\* starts.
TrainIterations(st, trainingData, lo, hi, learningRate) ==
  IF lo > hi THEN st
  ELSE IF lo = hi THEN TrainIteration(st, trainingData, lo, learningRate)
  ELSE ContinueIterations(
         TrainIterations(st, trainingData, lo, (lo + hi) \div 2, learningRate),
         trainingData, ((lo + hi) \div 2) + 1, hi, learningRate)
ContinueIterations(firstHalf, trainingData, lo, hi, learningRate) ==
  IF firstHalf = firstHalf
  THEN TrainIterations(firstHalf, trainingData, lo, hi, learningRate)
  ELSE firstHalf

\* SimpleAutoencoder.trainNetwork: the trained network and one average loss
\* per epoch.
trainNetwork(ae, trainingData, epochs, learningRate) ==
  TrainIterations([ae |-> ae, epochTotalLoss |-> 0, trainingLosses |-> <<>>],
                  trainingData, 1, epochs * Len(trainingData), learningRate)

\* SimpleAutoencoder.serialize (train-model route).
serialize(ae) ==
  [weights1 |-> ae.encoderWeights,
   weights2 |-> ae.bottleneckWeights,
   weights3 |-> ae.decoderWeights,
   biases1 |-> ae.encoderBiases,
   biases2 |-> ae.bottleneckBiases,
   biases3 |-> ae.decoderBiases,
   inputSize |-> ae.inputDimensions,
   hiddenSize |-> ae.hiddenLayerSize,
   bottleneckSize |-> ae.bottleneckDimensions]

\* deserialize that does not restore the decoder biases.
deserializeWithoutDecoderBiases(savedData) ==
  [inputDimensions |-> savedData.inputSize,
   hiddenLayerSize |-> savedData.hiddenSize,
   bottleneckDimensions |-> savedData.bottleneckSize,
   encoderWeights |-> savedData.weights1,
   bottleneckWeights |-> savedData.weights2,
   decoderWeights |-> savedData.weights3,
   encoderBiases |-> savedData.biases1,
   bottleneckBiases |-> savedData.biases2,
   decoderBiases |-> [i \in DOMAIN savedData.biases3 |-> 0]]

\* SimpleAutoencoder.deserialize (authenticate route; the train-model
\* route's copy assigns the same fields after its constructor).
deserialize(savedData) ==
  [inputDimensions |-> savedData.inputSize,
   hiddenLayerSize |-> savedData.hiddenSize,
   bottleneckDimensions |-> savedData.bottleneckSize,
   encoderWeights |-> savedData.weights1,
   bottleneckWeights |-> savedData.weights2,
   decoderWeights |-> savedData.weights3,
   encoderBiases |-> savedData.biases1,
   bottleneckBiases |-> savedData.biases2,
   decoderBiases |-> savedData.biases3]

\* JSON.parse(JSON.stringify(serialized autoencoder)): NaN weights are
\* written as null.
JsonAutoencoder(s) ==
  [weights1 |-> JsonMatrix(s.weights1),
   weights2 |-> JsonMatrix(s.weights2),
   weights3 |-> JsonMatrix(s.weights3),
   biases1 |-> JsonArray(s.biases1),
   biases2 |-> JsonArray(s.biases2),
   biases3 |-> JsonArray(s.biases3),
   inputSize |-> s.inputSize,
   hiddenSize |-> s.hiddenSize,
   bottleneckSize |-> s.bottleneckSize]

\* ------------------------------------------------------------------------
\* Configuration
\* ------------------------------------------------------------------------

MINIMUM_TRAINING_SAMPLES == 5
SAMPLES_REQUIRED == 5
SAMPLE_AUGMENTATION_MULTIPLIER == 3
\* DATA_AUGMENTATION_NOISE: 0.1
DATA_AUGMENTATION_NOISE == Lit(1, 10)
\* AUTOENCODER_AUTH_THRESHOLD: 0.03
AUTOENCODER_AUTH_THRESHOLD == Lit(3, 100)
\* The learning rate 0.01 passed to trainNetwork.
LearningRate == Lit(1, 100)
\* PASSWORD_LENGTH of the feature reconstruction in the authenticate route.
PASSWORD_LENGTH == 11

\* ------------------------------------------------------------------------
\* Trainer (train-model route)
\* ------------------------------------------------------------------------

\* addVariationNoise: value + (Math.random() - 0.5) * 2 * noise * value,
\* clamped to be non-negative; the i-th feature uses call number calls + i.
addVariationNoise(originalData, seed, calls) ==
  Force([i \in DOMAIN originalData |->
          MathMax(0, Add(originalData[i],
                         Mul(Mul(MulInt(Sub(MathRandom(seed, calls + i), Lit(1, 2)), 2),
                                 DATA_AUGMENTATION_NOISE),
                             originalData[i])))])

RECURSIVE AugmentFrom(_, _, _, _)
\* The augmentation loop from sample k on: each original sample followed by
\* SAMPLE_AUGMENTATION_MULTIPLIER noisy copies.
AugmentFrom(collectedSamples, k, seed, calls) ==
  IF k > Len(collectedSamples) THEN <<>>
  ELSE <<collectedSamples[k]>>
       \o [v \in 1..SAMPLE_AUGMENTATION_MULTIPLIER |->
            addVariationNoise(collectedSamples[k], seed,
                              calls + (v - 1) * Len(collectedSamples[k]))]
       \o AugmentFrom(collectedSamples, k + 1, seed,
                      calls + SAMPLE_AUGMENTATION_MULTIPLIER * Len(collectedSamples[k]))

RECURSIVE SumLengths(_, _)
SumLengths(samples, k) ==
  IF k > Len(samples) THEN 0 ELSE Len(samples[k]) + SumLengths(samples, k + 1)

\* The longest sample's length.
MaxLength(samples) ==
  CHOOSE m \in {Len(samples[k]) : k \in DOMAIN samples} :
    \A k \in DOMAIN samples : Len(samples[k]) <= m

\* Math.min / Math.max folded over a non-empty set of numbers.
MinOfSet(values) ==
  IF \E v \in values : IsNaN(Num(v)) THEN NaN
  ELSE CHOOSE m \in values : \A v \in values : m <= v
MaxOfSet(values) ==
  IF \E v \in values : IsNaN(Num(v)) THEN NaN
  ELSE CHOOSE m \in values : \A v \in values : v <= m

\* The values of feature idx over the samples that have it.
FeatureValues(samples, idx) ==
  {samples[k][idx] : k \in {j \in DOMAIN samples : idx \in DOMAIN samples[j]}}

\* ScaleFeature without the check for a zero range.
ScaleFeatureUnchecked(value, min, max, i) ==
  Div(Sub(value, Get(min, i)), Sub(Get(max, i), Get(min, i)))

\* (value - min[i]) / (max[i] - min[i]), or 0 when the range is 0.
ScaleFeature(value, min, max, i) ==
  IF Sub(Get(max, i), Get(min, i)) = 0 THEN 0
  ELSE Div(Sub(value, Get(min, i)), Sub(Get(max, i), Get(min, i)))

\* The second pass of normalizeKeystrokeFeatures, given the fitted bounds.
NormalizeWith(featureSamples, minValues, maxValues) ==
  [normalized |->
     Force([k \in DOMAIN featureSamples |->
             [i \in DOMAIN featureSamples[k] |->
               ScaleFeature(featureSamples[k][i], minValues, maxValues, i)]]),
   min |-> minValues,
   max |-> maxValues]

\* normalizeKeystrokeFeatures of the train-model route.  minValues and
\* maxValues start as +-Infinity over the first sample's features, so the
\* fold starts from the first sample's own value; a feature index beyond the
\* first sample's length meets an undefined entry, and Math.min(undefined, v)
\* is NaN.  On an empty list featureSamples[0].length is a TypeError.
normalizeKeystrokeFeatures(featureSamples) ==
  IF Len(featureSamples) = 0
  THEN Thrown("Cannot read properties of undefined (reading 'length')")
  ELSE
  NormalizeWith(featureSamples,
    Force([idx \in 1..MaxLength(featureSamples) |->
            IF idx > Len(featureSamples[1]) THEN NaN
            ELSE MinOfSet(FeatureValues(featureSamples, idx))]),
    Force([idx \in 1..MaxLength(featureSamples) |->
            IF idx > Len(featureSamples[1]) THEN NaN
            ELSE MaxOfSet(FeatureValues(featureSamples, idx))]))

RECURSIVE InsertSorted(_, _)
InsertSorted(sorted, x) ==
  IF sorted = <<>> THEN <<x>>
  ELSE IF x < Head(sorted) THEN <<x>> \o sorted
  ELSE <<Head(sorted)>> \o InsertSorted(Tail(sorted), x)

RECURSIVE SortAscending(_)
\* [...errors].sort((a, b) => a - b) of a list of numbers.
SortAscending(errors) ==
  IF errors = <<>> THEN <<>>
  ELSE InsertSorted(SortAscending(Tail(errors)), Head(errors))

HasNaN(errors) == \E i \in DOMAIN errors : IsNaN(errors[i])

\* The values sortedErrors[index] (0-based index) can take.  With a NaN in
\* the list the comparator a - b returns NaN and the resulting order is
\* implementation-defined: any element may end up at the index.
PercentileCandidates(errors, index) ==
  IF index + 1 \notin DOMAIN errors THEN {Undefined}
  ELSE IF HasNaN(errors) THEN {errors[i] : i \in DOMAIN errors}
  ELSE {SortAscending(errors)[index + 1]}

RECURSIVE SumList(_, _)
SumList(xs, k) == IF k > Len(xs) THEN 0 ELSE Add(xs[k], SumList(xs, k + 1))

RECURSIVE MaxList(_, _)
\* Math.max(...xs): NaN if any element is NaN.
MaxList(xs, k) ==
  IF k = Len(xs) THEN Num(xs[k]) ELSE MathMax(xs[k], MaxList(xs, k + 1))

RECURSIVE MinList(_, _)
MinList(xs, k) ==
  IF k = Len(xs) THEN Num(xs[k]) ELSE MathMin(xs[k], MinList(xs, k + 1))

\* Math.floor(0.95 * n)
Percentile95Index(n) == (95 * n) \div 100

\* The threshold calibration of the train-model route from the value found
\* at the percentile index.
ServerSafeThreshold(percentileValue) ==
  LET calculatedThreshold == OrElse(percentileValue, AUTOENCODER_AUTH_THRESHOLD)
  IN IF IsNaN(calculatedThreshold) \/ Le(calculatedThreshold, 0)
     THEN AUTOENCODER_AUTH_THRESHOLD
     ELSE calculatedThreshold

\* Math.max(AUTOENCODER_AUTH_THRESHOLD, safeCalculatedThreshold * 1.2)
ServerThreshold(percentileValue) ==
  MathMax(AUTOENCODER_AUTH_THRESHOLD, Quot(ServerSafeThreshold(percentileValue) * 12, 10))

\* The train-model route after training: the reconstruction errors of the
\* original samples under the trained network.
EvaluateRun(collectedSamples, augmentedTrainingSet, norm, trained) ==
  [inputDim |-> Len(norm.normalized[1]),
   min |-> norm.min,
   max |-> norm.max,
   ae |-> trained.ae,
   augmentedSamples |-> Len(augmentedTrainingSet),
   finalLoss |-> trained.trainingLosses[Len(trained.trainingLosses)],
   reconstructionErrors |->
     Force([k \in DOMAIN collectedSamples |->
             MeanSquaredError(
               [i \in DOMAIN collectedSamples[k] |->
                 ScaleFeature(collectedSamples[k][i], norm.min, norm.max, i)],
               TrainerPredict(trained.ae,
                 [i \in DOMAIN collectedSamples[k] |->
                   ScaleFeature(collectedSamples[k][i], norm.min, norm.max, i)]),
               Len(collectedSamples[k]))])]

\* The train-model route from normalisation to training.
TrainNormalized(collectedSamples, seed, augmentedTrainingSet, norm) ==
  EvaluateRun(collectedSamples, augmentedTrainingSet, norm,
    trainNetwork(
      NewAutoencoder(Len(norm.normalized[1]), HiddenSize, BottleneckSize, seed,
                     SAMPLE_AUGMENTATION_MULTIPLIER * SumLengths(collectedSamples, 1)),
      norm.normalized, Epochs, LearningRate))

\* The train-model route from the augmented set on.
TrainAugmented(collectedSamples, seed, augmentedTrainingSet) ==
  TrainNormalized(collectedSamples, seed, augmentedTrainingSet,
                  normalizeKeystrokeFeatures(augmentedTrainingSet))

\* The train-model route from augmentation to the reconstruction errors of
\* the original samples.
TrainRun(collectedSamples, seed) ==
  Force(TrainAugmented(collectedSamples, seed,
                       Force(AugmentFrom(collectedSamples, 1, seed, 0))))

\* model.json as read back by JSON.parse: the model the train-model route
\* writes for a training run and the value found at the percentile index.
ServerModel(username, run, percentileValue) ==
  LET errors == run.reconstructionErrors
      finalAuthenticationThreshold == ServerThreshold(percentileValue)
  IN [username |-> username,
      modelType |-> "autoencoder",
      inputDim |-> run.inputDim,
      normalizationParams |-> [min |-> JsonArray(run.min), max |-> JsonArray(run.max)],
      threshold |-> JsonNumber(finalAuthenticationThreshold),
      autoencoder |-> JsonAutoencoder(serialize(run.ae)),
      trainingStats |->
        [samples |-> Len(errors),
         augmentedSamples |-> run.augmentedSamples,
         reconstructionErrors |-> JsonArray(errors),
         meanError |-> JsonNumber(DivInt(SumList(errors, 1), Len(errors))),
         maxError |-> JsonNumber(MaxList(errors, 1)),
         minError |-> JsonNumber(MinList(errors, 1)),
         maximumError |-> Undefined,
         calculatedThreshold |-> JsonNumber(ServerSafeThreshold(percentileValue)),
         finalThreshold |-> JsonNumber(finalAuthenticationThreshold),
         finalLoss |-> JsonNumber(run.finalLoss)]]

\* ------------------------------------------------------------------------
\* Authenticator (authenticate route)
\* ------------------------------------------------------------------------

NoModel == [modelType |-> "none"]

\* The feature vector the route rebuilds from the request's component
\* arrays when the request carries no feature array: none of the components
\* is supplied here, so the four scalar features are 0 and the vector is
\* padded with zeros to PASSWORD_LENGTH * 3 + 1 entries.
ReconstructedFeatures == [i \in 1..(PASSWORD_LENGTH * 3 + 1) |-> 0]

\* keystrokeFeatures as the route extracts it from the request body.
RequestFeatures(features) == IF Len(features) = 0 THEN ReconstructedFeatures ELSE features

\* The normalisation of the live sample in the authenticate route.
RouteNormalize(keystrokeFeatures, min, max) ==
  [i \in DOMAIN keystrokeFeatures |->
    IF i > Len(min) \/ i > Len(max) THEN 0
    ELSE ScaleFeature(keystrokeFeatures[i], min, max, i)]

\* reconstructionError <= acceptableThreshold
RouteAccepts(reconstructionError, acceptableThreshold) ==
  Le(reconstructionError, acceptableThreshold)

\* The confidence score with the larger of maxError and twice the threshold.
RouteConfidenceLarger(reconstructionError, maxError, acceptableThreshold) ==
  MathMax(0, MathMin(One,
    Sub(One, Div(reconstructionError,
                 MulInt(MathMax(maxError, MulInt(acceptableThreshold, 2)), 2)))))

\* The confidence score of the authenticate route.
RouteConfidence(reconstructionError, maxError, acceptableThreshold) ==
  MathMax(0, MathMin(One,
    Sub(One, Div(reconstructionError,
                 MulInt(OrElse(maxError, MulInt(acceptableThreshold, 2)), 2)))))

\* normalizedInputFeatures.slice(0, 10).map(val => Math.min(Math.abs(val), 1))
FeatureDeviations(normalizedInputFeatures) ==
  [i \in 1..(IF Len(normalizedInputFeatures) < 10 THEN Len(normalizedInputFeatures) ELSE 10) |->
    MathMin(MathAbs(normalizedInputFeatures[i]), One)]

\* The response of the inner catch block of the authenticate route.
RouteNoModelResponse ==
  [status |-> 200, success |-> FALSE, authenticated |-> FALSE, mse |-> 0,
   reconstructionError |-> 0, deviations |-> <<>>,
   reason |-> "No model found for user"]

\* The autoencoder branch of the authenticate route, from the
\* reconstruction error to the response.
RouteDecision(savedModelData, normalizedInputFeatures, reconstructionError) ==
  [status |-> 200,
   success |-> RouteAccepts(reconstructionError, savedModelData.threshold),
   authenticated |-> RouteAccepts(reconstructionError, savedModelData.threshold),
   mse |-> JsonNumber(reconstructionError),
   reconstructionError |-> JsonNumber(reconstructionError),
   deviations |-> JsonArray(FeatureDeviations(normalizedInputFeatures)),
   confidence |-> JsonNumber(RouteConfidence(reconstructionError,
                                             savedModelData.trainingStats.maxError,
                                             savedModelData.threshold)),
   reason |-> IF RouteAccepts(reconstructionError, savedModelData.threshold)
              THEN "Authentication successful"
              ELSE "Reconstruction error too high",
   method |-> "autoencoder"]

\* The autoencoder branch of the authenticate route, from the normalised
\* sample on.
RouteReconstruct(savedModelData, normalizedInputFeatures) ==
  RouteDecision(savedModelData, normalizedInputFeatures,
    MeanSquaredError(normalizedInputFeatures,
                     RoutePredict(deserialize(savedModelData.autoencoder),
                                  normalizedInputFeatures),
                     Len(normalizedInputFeatures)))

\* The autoencoder branch of the authenticate route.
RouteAutoencoderResponse(savedModelData, keystrokeFeatures) ==
  RouteReconstruct(savedModelData,
    Force(RouteNormalize(keystrokeFeatures, savedModelData.normalizationParams.min,
                         savedModelData.normalizationParams.max)))

\* savedModelData.modelType === tag
HasTag(savedModelData, tag) == Has(savedModelData, "modelType") /\ savedModelData.modelType = tag

\* The response to a request without a username.
RouteUsernameRequiredResponse ==
  [status |-> 400, success |-> FALSE, authenticated |-> FALSE, mse |-> 0,
   reconstructionError |-> 0, reason |-> "Username is required"]

\* The response of the outer catch block of the authenticate route.
RouteSystemErrorResponse ==
  [status |-> 500, success |-> FALSE, authenticated |-> FALSE, mse |-> 0,
   reconstructionError |-> 0, deviations |-> <<>>,
   reason |-> "Authentication system error"]

\* Legacy statistical settings.
PERCENTILE_THRESHOLD == 95
\* mseStats?.percentileThreshold || 0.1
DefaultPercentileThreshold == Lit(1, 10)

\* savedModelData.mseStats?.<name>
MseStat(savedModelData, name) ==
  IF Has(savedModelData, "mseStats") /\ Has(savedModelData.mseStats, name)
  THEN savedModelData.mseStats[name] ELSE Undefined

\* (keystrokeFeatures[i] - means[i]) / (stds[i] || 1)
NormalizedFeature(keystrokeFeatures, means, stds, i) ==
  Div(Sub(keystrokeFeatures[i], means[i]), OrElse(Get(stds, i), One))

RECURSIVE StatisticalSquares(_, _, _, _)
\* The sum the statistical branch accumulates over the features that have a
\* mean.
StatisticalSquares(keystrokeFeatures, means, stds, i) ==
  IF i > Len(keystrokeFeatures) \/ i > Len(means) THEN 0
  ELSE Add(Mul(NormalizedFeature(keystrokeFeatures, means, stds, i),
               NormalizedFeature(keystrokeFeatures, means, stds, i)),
           StatisticalSquares(keystrokeFeatures, means, stds, i + 1))

\* keystrokeDeviations of the statistical branch.
StatisticalDeviations(keystrokeFeatures, means, stds) ==
  [i \in 1..(IF Len(keystrokeFeatures) < Len(means) THEN Len(keystrokeFeatures) ELSE Len(means)) |->
    MathMin(MathAbs(NormalizedFeature(keystrokeFeatures, means, stds, i)), One)]

\* The statistical branch from the error to the response.
StatisticalDecision(savedModelData, keystrokeFeatures, calculatedMSE, percentileThreshold) ==
  [status |-> 200,
   success |-> Le(calculatedMSE, percentileThreshold),
   authenticated |-> Le(calculatedMSE, percentileThreshold),
   mse |-> JsonNumber(calculatedMSE),
   reconstructionError |-> JsonNumber(calculatedMSE),
   deviations |-> JsonArray(StatisticalDeviations(keystrokeFeatures, savedModelData.means,
                                                  savedModelData.stds)),
   reason |-> IF Le(calculatedMSE, percentileThreshold)
              THEN "Authentication successful"
              ELSE "MSE exceeds percentile threshold",
   method |-> "statistical",
   thresholds |->
     [percentileThreshold |-> percentileThreshold,
      percentileUsed |-> OrElse(MseStat(savedModelData, "percentileUsed"), PERCENTILE_THRESHOLD)]]

\* The statistical branch of the authenticate route: it throws when the
\* model has no means or no stds.
RouteStatisticalResponse(savedModelData, keystrokeFeatures) ==
  IF ~Has(savedModelData, "means") \/ ~Has(savedModelData, "stds")
  THEN Thrown("Statistical model data is incomplete")
  ELSE StatisticalDecision(savedModelData, keystrokeFeatures,
         DivInt(StatisticalSquares(keystrokeFeatures, savedModelData.means,
                                   savedModelData.stds, 1),
                Len(keystrokeFeatures)),
         OrElse(MseStat(savedModelData, "percentileThreshold"), DefaultPercentileThreshold))

\* The inner try block of the authenticate route: the response it returns,
\* or the exception it throws.  components tells what the request carries
\* as holdTimes: "absent", or "number" for a value that is not an array.
RouteTry(savedModelData, features, components) ==
  IF savedModelData = NoModel THEN Thrown("ENOENT")
  ELSE IF Len(features) = 0 /\ components = "number"
  THEN Thrown("keyHoldTimes.slice is not a function")
  ELSE IF HasTag(savedModelData, "autoencoder") /\ Has(savedModelData, "autoencoder")
  THEN RouteAutoencoderResponse(savedModelData, RequestFeatures(features))
  ELSE RouteStatisticalResponse(savedModelData, RequestFeatures(features))

\* An inner catch block that lets the exception pass.
RouteCatchRethrow(result) == result

\* The inner catch block: whatever was thrown, the answer is "No model
\* found".
RouteCatch(result) == IF IsThrown(result) THEN RouteNoModelResponse ELSE result

\* POST of the authenticate route for a request with a username and a
\* feature array, given the content of the user's model.json (NoModel when
\* the file does not exist).
RouteAuthenticate(savedModelData, features) ==
  RouteCatch(RouteTry(savedModelData, features, "absent"))

\* POST of the authenticate route.  A body that is not JSON makes
\* request.json() throw into the outer catch block.
RoutePost(savedModelData, requestBody) ==
  IF requestBody.json = "malformed" THEN RouteSystemErrorResponse
  ELSE IF requestBody.username = "" THEN RouteUsernameRequiredResponse
  ELSE RouteCatch(RouteTry(savedModelData, requestBody.features, requestBody.holdTimes))

\* ------------------------------------------------------------------------
\* Extension library (libs/autoencoder.js) and background script
\* ------------------------------------------------------------------------

\* initializeWeightMatrix: Math.random() * 2 * scale - scale with the
\* Xavier scale sqrt(6 / (inputSize + outputSize)).
initializeWeightMatrix(inputSize, outputSize, seed, calls) ==
  Force([i \in 1..inputSize |->
          [j \in 1..outputSize |->
            Sub(Mul(MulInt(MathRandom(seed, calls + (i - 1) * outputSize + j), 2),
                    MathSqrt(Lit(6, inputSize + outputSize))),
                MathSqrt(Lit(6, inputSize + outputSize)))]])

\* new SimpleAutoencoder(inputFeatureCount, hiddenLayerSize, compressionSize)
\* of the extension library, after `calls` earlier calls of Math.random().
ExtNewAutoencoder(inputFeatureCount, hiddenLayerSize, compressionSize, seed, calls) ==
  [inputDimensions |-> inputFeatureCount,
   hiddenLayerSize |-> hiddenLayerSize,
   bottleneckDimensions |-> compressionSize,
   encoderWeights |->
     initializeWeightMatrix(inputFeatureCount, hiddenLayerSize, seed, calls),
   bottleneckWeights |->
     initializeWeightMatrix(hiddenLayerSize, compressionSize, seed,
                            calls + inputFeatureCount * hiddenLayerSize),
   decoderWeights |->
     initializeWeightMatrix(compressionSize, inputFeatureCount, seed,
                            calls + inputFeatureCount * hiddenLayerSize
                                  + hiddenLayerSize * compressionSize),
   encoderBiases |->
     InitBiases(hiddenLayerSize, seed,
                calls + inputFeatureCount * hiddenLayerSize
                      + hiddenLayerSize * compressionSize
                      + compressionSize * inputFeatureCount),
   bottleneckBiases |->
     InitBiases(compressionSize, seed,
                calls + inputFeatureCount * hiddenLayerSize
                      + hiddenLayerSize * compressionSize
                      + compressionSize * inputFeatureCount + hiddenLayerSize),
   decoderBiases |->
     InitBiases(inputFeatureCount, seed,
                calls + inputFeatureCount * hiddenLayerSize
                      + hiddenLayerSize * compressionSize
                      + compressionSize * inputFeatureCount
                      + hiddenLayerSize + compressionSize)]

\* SimpleAutoencoder.predict of the extension library: linear output layer.
ExtPredict(ae, inputFeatures) == ThreeLayers(ae, inputFeatures, "linear").finalOutput

\* The weight decay and random adjustment of performBackpropagation:
\* w * (1 - 0.0001) + (Math.random() - 0.5) * learningRate * 0.01.
PerturbWeights(weights, learningRate, seed, calls) ==
  Force([i \in DOMAIN weights |->
          [j \in DOMAIN weights[i] |->
            Add(Mul(weights[i][j], Sub(One, Lit(1, 10000))),
                Mul(Mul(Sub(MathRandom(seed, calls + (i - 1) * Len(weights[i]) + j),
                            Lit(1, 2)),
                        learningRate),
                    Lit(1, 100)))]])

\* performBackpropagation, given the output gradients
\* 2 * (actual[i] - target[i]) / target.length.
BackpropagateWith(ae, learningRate, seed, calls, outputGradients) ==
  [ae EXCEPT
     !.decoderWeights =
       Force([i \in 1..ae.bottleneckDimensions |->
               [j \in 1..ae.inputDimensions |->
                 Sub(Get(Get(ae.decoderWeights, i), j),
                     Mul(Mul(learningRate, Get(outputGradients, j)), Lit(1, 10)))]]),
     !.decoderBiases =
       Force([j \in 1..ae.inputDimensions |->
               Sub(ae.decoderBiases[j], Mul(learningRate, Get(outputGradients, j)))]),
     !.encoderWeights = PerturbWeights(ae.encoderWeights, learningRate, seed, calls),
     !.bottleneckWeights =
       PerturbWeights(ae.bottleneckWeights, learningRate, seed,
                      calls + ae.inputDimensions * ae.hiddenLayerSize)]

\* SimpleAutoencoder.performBackpropagation of the extension library.
performBackpropagation(ae, targetOutput, actualOutput, learningRate, seed, calls) ==
  BackpropagateWith(ae, learningRate, seed, calls,
    Force([i \in 1..Len(targetOutput) |->
            DivInt(MulInt(Sub(Get(actualOutput, i), targetOutput[i]), 2),
                   Len(targetOutput))]))

\* The orders [...trainingData].sort(() => Math.random() - 0.5) is taken
\* to produce: the random comparator makes the order implementation-defined.
Shuffles == {"kept", "reversed"}
ShuffleIndex(shuffle, n, k) == IF shuffle = "reversed" THEN n + 1 - k ELSE k

\* One sample of the extension's trainNetwork, given its reconstruction.
ExtTrainStepFrom(ae, trainingSample, ctx, calls, reconstructedSample) ==
  [ae |-> performBackpropagation(ae, trainingSample, reconstructedSample,
                                 ctx.learningRate, ctx.seed, calls),
   loss |-> MeanSquaredError(trainingSample, reconstructedSample, Len(trainingSample))]
ExtTrainStep(ae, trainingSample, ctx, calls) ==
  ExtTrainStepFrom(ae, trainingSample, ctx, calls, ExtPredict(ae, trainingSample))

\* Iteration t of the extension's trainNetwork over all epochs.  Each
\* epoch's sort is counted as n - 1 comparator calls of Math.random(), and
\* each backpropagation draws one number per encoder and bottleneck weight.
ExtTrainIteration(st, trainingData, t, ctx) ==
  AfterStep(st, Len(trainingData), ((t - 1) % Len(trainingData)) + 1,
    ExtTrainStep(st.ae,
      trainingData[ShuffleIndex(ctx.shuffle, Len(trainingData),
                                ((t - 1) % Len(trainingData)) + 1)],
      ctx,
      ctx.calls + (((t - 1) \div Len(trainingData)) + 1) * (Len(trainingData) - 1)
                + (t - 1) * (st.ae.inputDimensions * st.ae.hiddenLayerSize
                             + st.ae.hiddenLayerSize * st.ae.bottleneckDimensions)))

RECURSIVE ExtTrainIterations(_, _, _, _, _)
RECURSIVE ExtContinueIterations(_, _, _, _, _)
ExtTrainIterations(st, trainingData, lo, hi, ctx) ==
  IF lo > hi THEN st
  ELSE IF lo = hi THEN ExtTrainIteration(st, trainingData, lo, ctx)
  ELSE ExtContinueIterations(
         ExtTrainIterations(st, trainingData, lo, (lo + hi) \div 2, ctx),
         trainingData, ((lo + hi) \div 2) + 1, hi, ctx)
ExtContinueIterations(firstHalf, trainingData, lo, hi, ctx) ==
  IF firstHalf = firstHalf
  THEN ExtTrainIterations(firstHalf, trainingData, lo, hi, ctx)
  ELSE firstHalf

\* SimpleAutoencoder.trainNetwork of the extension library.
ExtTrainNetwork(ae, trainingData, epochs, ctx) ==
  ExtTrainIterations([ae |-> ae, epochTotalLoss |-> 0, trainingLosses |-> <<>>],
                     trainingData, 1, epochs * Len(trainingData), ctx)

\* normalizeKeystrokeFeatures of the extension library: the bounds cover the
\* first sample's features only, and a comparison with a missing
\* (undefined) feature is false, so it leaves the bounds alone.  An empty
\* list is refused.
ExtNormalizeKeystrokeFeatures(featureArrays) ==
  IF Len(featureArrays) = 0 THEN Thrown("Cannot normalize empty feature dataset")
  ELSE
  NormalizeWith(featureArrays,
    Force([idx \in 1..Len(featureArrays[1]) |->
            MinOfSet(FeatureValues(featureArrays, idx))]),
    Force([idx \in 1..Len(featureArrays[1]) |->
            MaxOfSet(FeatureValues(featureArrays, idx))]))

\* ExtThreshold without the outer Math.max against the default threshold.
ExtThresholdNoFloor(percentileValue) ==
  OrElse(percentileValue, AUTOENCODER_AUTH_THRESHOLD)

\* Math.max(sortedErrors[percentile95Index] || DEFAULT_AUTH_THRESHOLD,
\*          DEFAULT_AUTH_THRESHOLD)
ExtThreshold(percentileValue) ==
  MathMax(OrElse(percentileValue, AUTOENCODER_AUTH_THRESHOLD), AUTOENCODER_AUTH_THRESHOLD)

\* trainKeystrokeBiometricModel after training: the reconstruction errors
\* of the original samples.
ExtEvaluateRun(trainingSamples, augmentedDataset, norm, trained) ==
  [min |-> norm.min,
   max |-> norm.max,
   ae |-> trained.ae,
   augmentedSamples |-> Len(augmentedDataset),
   finalLosses |-> trained.trainingLosses,
   reconstructionErrors |->
     Force([k \in DOMAIN trainingSamples |->
             MeanSquaredError(
               [i \in DOMAIN trainingSamples[k] |->
                 ScaleFeature(trainingSamples[k][i], norm.min, norm.max, i)],
               ExtPredict(trained.ae,
                 [i \in DOMAIN trainingSamples[k] |->
                   ScaleFeature(trainingSamples[k][i], norm.min, norm.max, i)]),
               Len(trainingSamples[k]))])]

ExtTrainNormalized(trainingSamples, seed, shuffle, augmentedDataset, norm) ==
  ExtEvaluateRun(trainingSamples, augmentedDataset, norm,
    ExtTrainNetwork(
      ExtNewAutoencoder(Len(norm.normalized[1]), HiddenSize, BottleneckSize, seed,
                        SAMPLE_AUGMENTATION_MULTIPLIER * SumLengths(trainingSamples, 1)),
      norm.normalized, Epochs,
      [learningRate |-> LearningRate, seed |-> seed, shuffle |-> shuffle,
       calls |-> SAMPLE_AUGMENTATION_MULTIPLIER * SumLengths(trainingSamples, 1)
                 + 2 * (Len(norm.normalized[1]) * HiddenSize + HiddenSize * BottleneckSize)
                 + Len(norm.normalized[1]) + HiddenSize + BottleneckSize]))

ExtTrainAugmented(trainingSamples, seed, shuffle, augmentedDataset) ==
  ExtTrainNormalized(trainingSamples, seed, shuffle, augmentedDataset,
                     ExtNormalizeKeystrokeFeatures(augmentedDataset))

\* trainKeystrokeBiometricModel from augmentation to the reconstruction
\* errors of the original samples (at least MINIMUM_TRAINING_SAMPLES given).
ExtTrainRun(trainingSamples, seed, shuffle) ==
  Force(ExtTrainAugmented(trainingSamples, seed, shuffle,
                          Force(AugmentFrom(trainingSamples, 1, seed, 0))))

\* The model trainKeystrokeBiometricModel returns, as the profile store
\* gives it back.
ExtModel(run, percentileValue) ==
  [modelType |-> "autoencoder",
   autoencoder |-> JsonAutoencoder(serialize(run.ae)),
   normalizationParams |-> [min |-> JsonArray(run.min), max |-> JsonArray(run.max)],
   threshold |-> JsonNumber(ExtThreshold(percentileValue)),
   trainingStats |->
     [originalSampleCount |-> Len(run.reconstructionErrors),
      augmentedSampleCount |-> run.augmentedSamples,
      averageError |-> JsonNumber(DivInt(SumList(run.reconstructionErrors, 1),
                                         Len(run.reconstructionErrors))),
      maximumError |-> JsonNumber(MaxList(run.reconstructionErrors, 1)),
      finalLosses |-> JsonArray(run.finalLosses)]]

\* The normalisation of the extension's authenticators: 0 for an index
\* beyond the stored bounds.
ExtNormalizeInput(inputFeatures, min, max) ==
  [i \in DOMAIN inputFeatures |->
    IF i > Len(min) \/ i > Len(max) THEN 0
    ELSE ScaleFeature(inputFeatures[i], min, max, i)]

\* Math.max(0, Math.min(1, 1 - error / (maxExpectedError * 2))) with
\* maxExpectedError = trainingStats.maximumError || threshold * 2.
ExtConfidence(reconstructionError, maximumError, threshold) ==
  MathMax(0, MathMin(One,
    Sub(One, Div(reconstructionError,
                 MulInt(OrElse(maximumError, MulInt(threshold, 2)), 2)))))

\* ExtDecision accepting only an error strictly below the threshold.
ExtDecisionStrict(trainedModelData, normalizedInputFeatures, reconstructionError) ==
  [success |-> ~Le(trainedModelData.threshold, reconstructionError)
                 /\ ~IsNaN(reconstructionError),
   authenticated |-> ~Le(trainedModelData.threshold, reconstructionError)
                       /\ ~IsNaN(reconstructionError),
   reconstructionError |-> reconstructionError,
   threshold |-> trainedModelData.threshold,
   confidence |-> ExtConfidence(reconstructionError,
                                trainedModelData.trainingStats.maximumError,
                                trainedModelData.threshold),
   deviations |-> FeatureDeviations(normalizedInputFeatures),
   modelType |-> "autoencoder"]

\* The result both extension authenticators build from the reconstruction.
ExtDecision(trainedModelData, normalizedInputFeatures, reconstructionError) ==
  [success |-> Le(reconstructionError, trainedModelData.threshold),
   authenticated |-> Le(reconstructionError, trainedModelData.threshold),
   reconstructionError |-> reconstructionError,
   threshold |-> trainedModelData.threshold,
   confidence |-> ExtConfidence(reconstructionError,
                                trainedModelData.trainingStats.maximumError,
                                trainedModelData.threshold),
   deviations |-> FeatureDeviations(normalizedInputFeatures),
   modelType |-> "autoencoder"]

ExtReconstruct(trainedModelData, normalizedInputFeatures) ==
  ExtDecision(trainedModelData, normalizedInputFeatures,
    MeanSquaredError(normalizedInputFeatures,
                     ExtPredict(deserialize(trainedModelData.autoencoder),
                                normalizedInputFeatures),
                     Len(normalizedInputFeatures)))

\* authenticateKeystrokePattern of the extension library; it throws on a
\* model that is not an autoencoder model.
authenticateKeystrokePattern(inputFeatures, trainedModelData) ==
  IF trainedModelData.modelType # "autoencoder"
  THEN [thrown |-> "Invalid model data - expected autoencoder model for authentication"]
  ELSE ExtReconstruct(trainedModelData,
         Force(ExtNormalizeInput(inputFeatures, trainedModelData.normalizationParams.min,
                                 trainedModelData.normalizationParams.max)))

\* performKeystrokeAuthentication of the background script: any error is
\* answered with a rejection carrying reconstruction error 999.
performKeystrokeAuthentication(inputFeatures, trainedModelData) ==
  IF trainedModelData.modelType # "autoencoder"
  THEN [success |-> FALSE, authenticated |-> FALSE, reconstructionError |-> 999 * Scale,
        confidence |-> 0,
        error |-> "Invalid model data - expected autoencoder model for authentication"]
  ELSE ExtReconstruct(trainedModelData,
         Force(ExtNormalizeInput(inputFeatures, trainedModelData.normalizationParams.min,
                                 trainedModelData.normalizationParams.max)))

\* ------------------------------------------------------------------------
\* State
\* ------------------------------------------------------------------------

\* Bounds of the state space.
MaxSampleCount == 4
MaxTrainRequests == 5

Users == {"alice"}

NoFile == [exists |-> FALSE]
\* sample_<i>.json as the trainer reads it back: its features.
SampleFile(features) == [exists |-> TRUE, features |-> features]

\* Feature vectors the clients send: some of the model's dimension, one a
\* feature short and one a feature long (the extractors produce vectors of
\* two different lengths), and an empty one.
FullVector(first) == [i \in 1..Dim |-> IF i = 1 THEN first ELSE One]
ShortVector == [i \in 1..(Dim - 1) |-> One]
LongVector == [i \in 1..(Dim + 1) |-> One]
TrainingVectors == {FullVector(One), FullVector(Lit(12, 10)), ShortVector}
LiveVectors == {FullVector(One), FullVector(Lit(11, 10)), FullVector(Lit(12, 10)),
                FullVector(Lit(3, 2)), ShortVector, LongVector, <<>>}

\* Sample lists of n vectors: j times the vector a, then the vector b.
SampleList(n, a, b, j) == [k \in 1..n |-> IF k <= j THEN a ELSE b]
\* The sample lists the extension's registration hands to the trainer: one
\* short of the minimum, and the minimum.
RegistrationSamples ==
  {SampleList(n, FullVector(One), b, j) :
     n \in (MINIMUM_TRAINING_SAMPLES - 1)..MINIMUM_TRAINING_SAMPLES,
     b \in TrainingVectors, j \in {1, 3}}

VARIABLES
  sampleFiles,  \* models/<username>/samples/sample_<i>.json: the features stored in it
  modelFile,    \* models/<username>/model.json, parsed
  profiles,     \* the extension's stored model of each user
  trainingLog,  \* per user: the samples and errors of the run that produced the model
  resp,         \* the response to the last request handled
  requests,     \* number of train requests handled so far
  pending,      \* requests in flight (handlers suspended at an await)
  keystrokeCapture,     \* the KeystrokeCapture component's state (useState hooks)
  contentState,         \* the content script's contentState, and the overlays it shows
  extensionState,       \* the background script's extensionState
  failedKeystrokeAuths, \* per client: failed keystroke authentications since the last success
  popupState,           \* the popup's popupState, its keystroke input and stored profiles
  trainNetworkState,    \* the trainNetwork call in progress: its loop variables
  voiceHeap,            \* the profile objects of a voice match, by reference
  samplePassphrases,    \* the passphrase typed for each sample the web registration stored
  messages,             \* the messages the background script has received
  autoencoderHeap,      \* the weight arrays of autoencoders and serialized data, by reference
  backgroundProfiles,   \* chrome.storage.local (profiles, activeProfile) and the background
                        \* script's extensionState.currentProfile and lastActiveTab
  messageSend           \* the safeMessageSend call in progress in the content script

\* The state of the routes, which the clients' handlers leave alone.
serverVars == <<sampleFiles, modelFile, profiles, trainingLog, resp, requests, pending>>

\* The state of the clients that fall back to voice authentication.
fallbackVars == <<keystrokeCapture, contentState, extensionState, failedKeystrokeAuths>>

\* The state of the popup.
popupVars == <<popupState>>

\* The state of a call of trainNetwork.
loopVars == <<trainNetworkState>>

\* The objects a voice match works on.
heapVars == <<voiceHeap>>

\* The samples the web registration has had stored.
enrolmentVars == <<samplePassphrases>>

\* The message listener of the background script.
messageVars == <<messages>>

\* The arrays that autoencoders and their serialized data refer to.
snapshotVars == <<autoencoderHeap>>

\* The extension's stored profiles and the background script's pointers to them.
storageVars == <<backgroundProfiles>>

\* A call of safeMessageSend of the content script.
sendVars == <<messageSend>>

\* What each of the three above leaves alone.
besideSnapshotVars ==
  <<fallbackVars, popupVars, loopVars, heapVars, enrolmentVars, messageVars, storageVars,
    sendVars>>
besideStorageVars ==
  <<keystrokeCapture, contentState, failedKeystrokeAuths, popupVars, loopVars, heapVars,
    enrolmentVars, messageVars, snapshotVars, sendVars>>
besideSendVars ==
  <<fallbackVars, popupVars, loopVars, heapVars, enrolmentVars, messageVars, snapshotVars,
    storageVars>>

\* What the fallback clients leave alone, and what the popup leaves alone.
besideFallbackVars ==
  <<popupVars, loopVars, heapVars, enrolmentVars, messageVars, snapshotVars, storageVars, sendVars>>
besidePopupVars ==
  <<fallbackVars, loopVars, heapVars, enrolmentVars, messageVars, snapshotVars, storageVars, sendVars>>
besideLoopVars ==
  <<fallbackVars, popupVars, heapVars, enrolmentVars, messageVars, snapshotVars, storageVars, sendVars>>
besideHeapVars ==
  <<fallbackVars, popupVars, loopVars, enrolmentVars, messageVars, snapshotVars, storageVars, sendVars>>
besideRegistrationVars ==
  <<contentState, extensionState, failedKeystrokeAuths, popupVars, loopVars, heapVars,
    messageVars, snapshotVars, storageVars, sendVars>>
besideMessageVars ==
  <<fallbackVars, popupVars, loopVars, heapVars, enrolmentVars, snapshotVars, storageVars, sendVars>>

\* The state of all clients, which the routes leave alone.
clientVars ==
  <<fallbackVars, popupVars, loopVars, heapVars, enrolmentVars, messageVars, snapshotVars,
    storageVars, sendVars>>

vars == <<sampleFiles, modelFile, profiles, trainingLog, resp, requests, pending,
          keystrokeCapture, contentState, extensionState, failedKeystrokeAuths,
          popupState, trainNetworkState, voiceHeap, samplePassphrases, messages,
          autoencoderHeap, backgroundProfiles, messageSend>>

NoResponse == [status |-> 0]
NoLog == [samples |-> <<>>]

\* AUTH_CONFIG.MAX_FAILURES_BEFORE_VOICE of the background script; the component
\* and the content script write the same number in their comparisons.
MAX_FAILURES_BEFORE_VOICE == 2

\* The voice modal of the content script closes the website at this many
\* failed attempts.
MAX_FAILED_ATTEMPTS == 5

\* The popup takes this many keystroke samples for a profile.
REGISTRATION_SAMPLES == 5
\* const SAMPLES_REQUIRED = 10 of the web component.
COMPONENT_SAMPLES_REQUIRED == 10

\* popupState.registrationData as startRegistration and closeRegistration
\* reset it.
NoRegistrationData ==
  [profileName |-> "", password |-> "", keystrokeSamples |-> <<>>, currentStep |-> 1]

\* No call of trainNetwork is in progress and none has returned.
NoTrainNetworkCall ==
  [trainer |-> "none", trainingData |-> 0, epochs |-> 0, currentEpoch |-> 0,
   inEpoch |-> FALSE, shuffledData |-> <<>>, updates |-> <<>>,
   trainingLosses |-> <<>>, running |-> FALSE, returned |-> FALSE]

\* useState<string | null>(null) of firstPassword, and a first password.
NoFirstPassword == [isNull |-> TRUE, value |-> ""]
FirstPassword(userPassphrase) == [isNull |-> FALSE, value |-> userPassphrase]

\* activeProfile: null, lastActiveTab: null
NoProfileId == 0
NoTab == 0

\* No voice match has been called: no profile object exists.
NoVoiceMatch == [objects |-> <<>>, called |-> FALSE]

\* No autoencoder has been constructed: no weight array exists. savedData
\* keeps, per autoencoder, the serialized data deserialize() was called with
\* (0 for one made by new alone).
NoAutoencoder ==
  [objects |-> <<>>, autoencoders |-> <<>>, serialized |-> <<>>, savedData |-> <<>>]

\* chrome.storage.local as onInstalled writes it at the installation, and
\* currentProfile: null, lastActiveTab: null of the initial extensionState.
EmptyStorage ==
  [profiles |-> {}, activeProfile |-> NoProfileId,
   currentProfile |-> NoProfileId, lastActiveTab |-> NoTab]

\* No call of safeMessageSend is in progress and none has finished.
NoMessageSend ==
  [calls |-> 0, maxRetries |-> 0, attempts |-> 0, pending |-> "none",
   lastOutcome |-> "none", callbacks |-> <<>>]

\* The clients as they start: useState(0) / useState(false) in the component,
\* the initial contentState and extensionState objects of the extension.
InitClients ==
  /\ keystrokeCapture = [authFailureCount |-> 0, showVoiceAuthDialog |-> FALSE,
                         authResult |-> "none",
                         currentMode |-> "auth", userIdentifier |-> "",
                         firstPassword |-> NoFirstPassword, capturedSamples |-> 0,
                         showVoiceSetup |-> FALSE]
  /\ contentState = [authFailureCount |-> 0, isActive |-> FALSE, isCapturing |-> FALSE,
                     actualPassword |-> "", timers |-> {},
                     voiceModals |-> 0, websiteClosed |-> FALSE]
  /\ extensionState = [authFailureCount |-> 0, isActive |-> FALSE,
                       isVoiceAuthRequired |-> FALSE]
  /\ failedKeystrokeAuths = [component |-> 0, content |-> 0]
  /\ popupState = [registrationData |-> NoRegistrationData,
                   input |-> [value |-> "", disabled |-> FALSE],
                   storedProfiles |-> <<>>,
                   status |-> ""]
  /\ trainNetworkState = NoTrainNetworkCall
  /\ voiceHeap = NoVoiceMatch
  /\ samplePassphrases = <<>>
  /\ messages = <<>>
  /\ autoencoderHeap = NoAutoencoder
  /\ backgroundProfiles = EmptyStorage
  /\ messageSend = NoMessageSend

InitDisk ==
  /\ sampleFiles = [u \in Users |-> [i \in 0..MaxSampleCount |-> NoFile]]
  /\ modelFile = [u \in Users |-> NoModel]
  /\ profiles = [u \in Users |-> NoModel]
  /\ trainingLog = [u \in Users |-> NoLog]

Init ==
  /\ InitDisk
  /\ resp = NoResponse
  /\ requests = 0
  /\ pending = <<>>
  /\ InitClients

RECURSIVE CollectSamples(_, _, _)
\* The load loop of the train-model route: the features of the sample files
\* i..sampleCount that exist, in order (a file that cannot be read is
\* skipped).
CollectSamples(files, i, sampleCount) ==
  IF i > sampleCount THEN <<>>
  ELSE (IF files[i].exists THEN <<files[i].features>> ELSE <<>>)
       \o CollectSamples(files, i + 1, sampleCount)

\* sampleCount >= SAMPLES_REQUIRED - 1
ReadyToTrain(sampleCount) == sampleCount >= SAMPLES_REQUIRED - 1

\* collectedSamples.length >= MINIMUM_TRAINING_SAMPLES
EnoughSamples(collectedSamples) == Len(collectedSamples) >= MINIMUM_TRAINING_SAMPLES

\* NextResponse.json({ success: true })
TrainSuccessResponse == [status |-> 200, success |-> TRUE]

\* POST of the train-model route, run to completion, for a username whose
\* userModelDirectory is models/<directory>: store the sample, and with enough
\* samples train and overwrite the model.
TrainModelIn(directory, username, features, sampleCount, seed) ==
  /\ \E files \in {[sampleFiles[directory] EXCEPT ![sampleCount] = SampleFile(features)]} :
     \E collectedSamples \in {CollectSamples(files, 0, sampleCount)} :
        /\ sampleFiles' = [sampleFiles EXCEPT ![directory] = files]
        /\ IF ReadyToTrain(sampleCount) /\ EnoughSamples(collectedSamples)
           THEN \E run \in {TrainRun(collectedSamples, seed)} :
                  \E c \in PercentileCandidates(run.reconstructionErrors,
                                                 Percentile95Index(Len(collectedSamples))) :
                     /\ modelFile' = [modelFile EXCEPT ![directory] = ServerModel(username, run, c)]
                     /\ trainingLog' =
                          [trainingLog EXCEPT ![directory] =
                            [samples |-> collectedSamples,
                             reconstructionErrors |-> run.reconstructionErrors,
                             percentileValue |-> c,
                             trainer |-> "server"]]
           ELSE UNCHANGED <<modelFile, trainingLog>>
  /\ resp' = TrainSuccessResponse
  /\ requests' = requests + 1
  /\ UNCHANGED <<profiles, pending, clientVars>>

\* POST of the train-model route for a plain username, which names its own
\* directory under models/.
TrainModel(username, features, sampleCount, seed) ==
  /\ requests < MaxTrainRequests
  /\ TrainModelIn(username, username, features, sampleCount, seed)

\* POST of the authenticate route, run to completion.
Authenticate(username, features) ==
  /\ resp' = RouteAuthenticate(modelFile[username], features)
  /\ UNCHANGED <<sampleFiles, modelFile, profiles, trainingLog, requests, pending, clientVars>>

Next ==
  \/ \E u \in Users, f \in TrainingVectors, n \in 0..MaxSampleCount, seed \in Seeds :
       TrainModel(u, f, n, seed)
  \/ \E u \in Users, f \in LiveVectors : Authenticate(u, f)

Spec == Init /\ [][Next]_vars

\* ------------------------------------------------------------------------
\* The routes on usernames that are paths
\* ------------------------------------------------------------------------

\* Most path segments of a username.
MaxSegments == 2

\* The directories under models/ and the segments a username is made of: a
\* username is written here as the list of its segments between slashes.
Directories == {"alice", "bob"}
PathSegments == Directories \cup {".", ".."}
Usernames == UNION {[1..n -> PathSegments] : n \in 1..MaxSegments}

RECURSIVE PathNormalize(_, _, _)
\* path.normalize on the joined segments: "." is dropped, ".." removes the
\* segment before it.
PathNormalize(stack, segments, i) ==
  IF i > Len(segments) THEN stack
  ELSE IF segments[i] = "." THEN PathNormalize(stack, segments, i + 1)
  ELSE IF segments[i] = ".."
  THEN PathNormalize(IF Len(stack) > 0 THEN SubSeq(stack, 1, Len(stack) - 1) ELSE stack,
                     segments, i + 1)
  ELSE PathNormalize(Append(stack, segments[i]), segments, i + 1)

\* path.join(process.cwd(), "models", username)
UserModelDirectory(username) == PathNormalize(<<"cwd", "models">>, username, 1)

\* The usernames whose directory is one of the directories under models/.
Identities ==
  {username \in Usernames :
     \E d \in Directories : UserModelDirectory(username) = <<"cwd", "models", d>>}

\* The name under models/ of an identity's directory.
DirectoryOf(username) == UserModelDirectory(username)[3]

InitPaths ==
  /\ sampleFiles = [d \in Directories |-> [i \in 0..MaxSampleCount |-> NoFile]]
  /\ modelFile = [d \in Directories |-> NoModel]
  /\ profiles = [u \in Users |-> NoModel]
  /\ trainingLog = [d \in Directories |-> NoLog]
  /\ resp = NoResponse
  /\ requests = 0
  /\ pending = <<>>
  /\ InitClients

\* POST of the train-model route for the username.
TrainAs(username, features, sampleCount, seed) ==
  /\ requests < MaxTrainRequests
  /\ TrainModelIn(DirectoryOf(username), username, features, sampleCount, seed)

\* POST of the authenticate route for the username.
AuthenticateAs(username, features) ==
  /\ resp' = RouteAuthenticate(modelFile[DirectoryOf(username)], features)
  /\ UNCHANGED <<sampleFiles, modelFile, profiles, trainingLog, requests, pending, clientVars>>

NextPaths ==
  \/ \E username \in Identities, n \in 0..MaxSampleCount :
       TrainAs(username, FullVector(One), n, 1)
  \/ \E username \in Identities, f \in {FullVector(One), ShortVector} :
       AuthenticateAs(username, f)

SpecPaths == InitPaths /\ [][NextPaths]_vars

\* ------------------------------------------------------------------------
\* The train-model route on identical samples
\* ------------------------------------------------------------------------

\* The all-zero feature vector (a trace without timing information).
ZeroVector == [i \in 1..Dim |-> 0]
IdenticalVectors == {ZeroVector, FullVector(One)}

NextIdentical ==
  \/ \E u \in Users, f \in IdenticalVectors, n \in 0..MaxSampleCount, seed \in Seeds :
       TrainModel(u, f, n, seed)
  \/ \E u \in Users, f \in IdenticalVectors : Authenticate(u, f)

SpecIdentical == Init /\ [][NextIdentical]_vars

\* ------------------------------------------------------------------------
\* The extension: registration and the two authenticators
\* ------------------------------------------------------------------------

\* The error trainKeystrokeBiometricModel throws on too few samples.
TooFewSamplesError == [thrown |-> "Need at least 5 samples for reliable training"]
\* What the registration reports once the profile is saved.
ProfileCreated == [success |-> TRUE, profile |-> "created"]

\* Registration in the extension: trainKeystrokeBiometricModel on the
\* captured samples, then the profile with the trained model is stored.
ExtTrain(username, trainingSamples, seed, shuffle) ==
  /\ IF Len(trainingSamples) < MINIMUM_TRAINING_SAMPLES
     THEN /\ resp' = TooFewSamplesError
          /\ UNCHANGED <<profiles, trainingLog>>
     ELSE \E run \in {ExtTrainRun(trainingSamples, seed, shuffle)} :
            \E c \in PercentileCandidates(run.reconstructionErrors,
                                          Percentile95Index(Len(trainingSamples))) :
               /\ profiles' = [profiles EXCEPT ![username] = ExtModel(run, c)]
               /\ trainingLog' =
                    [trainingLog EXCEPT ![username] =
                      [samples |-> trainingSamples,
                       reconstructionErrors |-> run.reconstructionErrors,
                       percentileValue |-> c,
                       trainer |-> "extension"]]
               /\ resp' = ProfileCreated
  /\ UNCHANGED <<sampleFiles, modelFile, requests, pending, clientVars>>

\* authenticateKeystrokePattern on the stored model.
ExtAuthenticate(username, features) ==
  /\ resp' = authenticateKeystrokePattern(features, profiles[username])
  /\ UNCHANGED <<sampleFiles, modelFile, profiles, trainingLog, requests, pending, clientVars>>

\* performKeystrokeAuthentication of the background script on the stored
\* model.
BgAuthenticate(username, features) ==
  /\ resp' = performKeystrokeAuthentication(features, profiles[username])
  /\ UNCHANGED <<sampleFiles, modelFile, profiles, trainingLog, requests, pending, clientVars>>

NextExt ==
  \/ \E u \in Users, samples \in RegistrationSamples, seed \in Seeds, shuffle \in Shuffles :
       ExtTrain(u, samples, seed, shuffle)
  \/ \E u \in Users, f \in LiveVectors : ExtAuthenticate(u, f)
  \/ \E u \in Users, f \in LiveVectors : BgAuthenticate(u, f)

SpecExt == Init /\ [][NextExt]_vars

\* ------------------------------------------------------------------------
\* The three authenticators on trained models
\* ------------------------------------------------------------------------

\* The sample lists of RegistrationSamples a trainer accepts.
EnrolledSampleLists == {s \in RegistrationSamples : Len(s) >= MINIMUM_TRAINING_SAMPLES}

\* The model.json files the train-model route writes for those lists.
ServerModelsOf(username) ==
  {NoModel} \cup
  UNION {{ServerModel(username, run, c) :
            c \in PercentileCandidates(run.reconstructionErrors,
                                       Percentile95Index(Len(run.reconstructionErrors)))} :
         run \in {TrainRun(s, seed) : s \in EnrolledSampleLists, seed \in Seeds}}

\* The models the extension's registration stores for those lists.
ExtModels ==
  {NoModel} \cup
  UNION {{ExtModel(run, c) :
            c \in PercentileCandidates(run.reconstructionErrors,
                                       Percentile95Index(Len(run.reconstructionErrors)))} :
         run \in {ExtTrainRun(s, seed, shuffle) :
                    s \in EnrolledSampleLists, seed \in Seeds, shuffle \in Shuffles}}

\* The stores after some enrolment: each user has enrolled with the server
\* (a model.json), with the extension (a profile), or not at all.
InitAuth ==
  /\ sampleFiles = [u \in Users |-> [i \in 0..MaxSampleCount |-> NoFile]]
  /\ modelFile \in {f \in [Users -> UNION {ServerModelsOf(u) : u \in Users}] :
                      \A u \in Users : f[u] \in ServerModelsOf(u)}
  /\ profiles \in [Users -> ExtModels]
  /\ \A u \in Users : modelFile[u] = NoModel \/ profiles[u] = NoModel
  /\ trainingLog = [u \in Users |-> NoLog]
  /\ resp = NoResponse
  /\ requests = 0
  /\ pending = <<>>
  /\ InitClients

NextAuth ==
  \/ \E u \in Users, f \in LiveVectors : Authenticate(u, f)
  \/ \E u \in Users, f \in LiveVectors : ExtAuthenticate(u, f)
  \/ \E u \in Users, f \in LiveVectors : BgAuthenticate(u, f)

SpecAuth == InitAuth /\ [][NextAuth]_vars

\* ------------------------------------------------------------------------
\* The authenticate route on every kind of stored model and request
\* ------------------------------------------------------------------------

\* A legacy statistical model.json: mean and standard deviation per feature
\* and a percentile threshold, without a modelType.
LegacyStatisticalModel(username) ==
  [username |-> username,
   means |-> [i \in 1..Dim |-> One],
   stds |-> [i \in 1..Dim |-> IF i = 1 THEN Lit(1, 10) ELSE 0],
   mseStats |-> [percentileThreshold |-> Lit(2, 10), percentileUsed |-> PERCENTILE_THRESHOLD]]

\* model.json with the modelType set to tag, and with a field removed.
Tagged(savedModelData, tag) == [modelType |-> tag] @@ savedModelData
WithoutField(savedModelData, name) ==
  [f \in DOMAIN savedModelData \ {name} |-> savedModelData[f]]

\* The model.json files the train-model route writes for an enrolment with
\* samples of the model's dimension.
RouteTrainedModels(username) ==
  UNION {{ServerModel(username, run, c) :
            c \in PercentileCandidates(run.reconstructionErrors,
                                       Percentile95Index(Len(run.reconstructionErrors)))} :
         run \in {TrainRun(SampleList(MINIMUM_TRAINING_SAMPLES, FullVector(One), b, j), seed) :
                    b \in {FullVector(One), FullVector(Lit(12, 10))}, j \in {1, 3},
                    seed \in Seeds}}

\* What models/<username>/model.json can hold: nothing, a trained
\* autoencoder model, a legacy statistical model (untagged, tagged
\* "statistical", tagged with an unknown type, tagged "autoencoder"
\* without an autoencoder, or without mseStats), a statistical model
\* without its means, and an autoencoder model that lost its tag.
StoredModelFiles(username) ==
  {NoModel} \cup RouteTrainedModels(username)
  \cup {LegacyStatisticalModel(username),
        Tagged(LegacyStatisticalModel(username), "statistical"),
        Tagged(LegacyStatisticalModel(username), "gmm"),
        Tagged(LegacyStatisticalModel(username), "autoencoder"),
        WithoutField(LegacyStatisticalModel(username), "mseStats"),
        Tagged(WithoutField(LegacyStatisticalModel(username), "means"), "statistical")}
  \cup {WithoutField(m, "modelType") : m \in RouteTrainedModels(username)}

\* The requests: a body that is or is not JSON, with or without a username,
\* with a feature array (possibly empty) and with holdTimes absent or not an
\* array.
RouteRequests ==
  [json : {"valid", "malformed"}, username : Users \cup {""},
   features : LiveVectors, holdTimes : {"absent", "number"}]

InitRoute ==
  /\ sampleFiles = [u \in Users |-> [i \in 0..MaxSampleCount |-> NoFile]]
  /\ modelFile \in {f \in [Users -> UNION {StoredModelFiles(u) : u \in Users}] :
                      \A u \in Users : f[u] \in StoredModelFiles(u)}
  /\ profiles = [u \in Users |-> NoModel]
  /\ trainingLog = [u \in Users |-> NoLog]
  /\ resp = NoResponse
  /\ requests = 0
  /\ pending = <<>>
  /\ InitClients

\* The model.json the route reads for the request's username.
ModelFileOf(requestBody) ==
  IF requestBody.username \in Users THEN modelFile[requestBody.username] ELSE NoModel

\* POST of the authenticate route on any request, run to completion.
Post(requestBody) ==
  /\ resp' = RoutePost(ModelFileOf(requestBody), requestBody)
  /\ UNCHANGED <<sampleFiles, modelFile, profiles, trainingLog, requests, pending, clientVars>>

NextRoute == \E requestBody \in RouteRequests : Post(requestBody)

SpecRoute == InitRoute /\ [][NextRoute]_vars

\* ------------------------------------------------------------------------
\* The normalisers on their own
\* ------------------------------------------------------------------------

\* Bound on the number of samples handed to a normaliser.
MaxNormSamples == 2

\* Feature values and vectors of the model's dimension.
NormValues == {0, One, Lit(12, 10)}
NormVectors == [1..Dim -> NormValues]
NormInputs == UNION {[1..n -> NormVectors] : n \in 1..MaxNormSamples}

\* normalizeKeystrokeFeatures of the train-model route on a sample set; a
\* behaviour makes one call.
NormalizeServer ==
  /\ resp = NoResponse
  /\ \E featureSamples \in NormInputs :
       resp' = [operation |-> "normalize", trainer |-> "server",
                samples |-> featureSamples,
                result |-> normalizeKeystrokeFeatures(featureSamples)]
  /\ UNCHANGED <<sampleFiles, modelFile, profiles, trainingLog, requests, pending, clientVars>>

\* normalizeKeystrokeFeatures of the extension library on a sample set.
NormalizeExt ==
  /\ resp = NoResponse
  /\ \E featureArrays \in NormInputs :
       resp' = [operation |-> "normalize", trainer |-> "extension",
                samples |-> featureArrays,
                result |-> ExtNormalizeKeystrokeFeatures(featureArrays)]
  /\ UNCHANGED <<sampleFiles, modelFile, profiles, trainingLog, requests, pending, clientVars>>

NextNorm == NormalizeServer \/ NormalizeExt

SpecNorm == Init /\ [][NextNorm]_vars

\* ------------------------------------------------------------------------
\* Fitting normalisation parameters on any sample list
\* ------------------------------------------------------------------------

\* Sample lists of up to MaxNormSamples vectors, the empty list included;
\* the vectors have the model's dimension or one feature less.
FitVectors == [1..Dim -> NormValues] \cup [1..(Dim - 1) -> NormValues]
FitInputs == UNION {[1..n -> FitVectors] : n \in 0..MaxNormSamples}

\* The outcome of a fit: the exception, or the parameters returned.
FitOutcome(trainer, samples, result) ==
  [operation |-> "fit", trainer |-> trainer, samples |-> samples,
   failed |-> IsThrown(result),
   params |-> IF IsThrown(result) THEN <<>> ELSE <<result.min, result.max>>]

\* normalizeKeystrokeFeatures of the train-model route on any sample list; a
\* behaviour makes one call.
FitServer ==
  /\ resp = NoResponse
  /\ \E featureSamples \in FitInputs :
       resp' = FitOutcome("server", featureSamples, normalizeKeystrokeFeatures(featureSamples))
  /\ UNCHANGED <<sampleFiles, modelFile, profiles, trainingLog, requests, pending, clientVars>>

\* normalizeKeystrokeFeatures of the extension library on any sample list.
FitExt ==
  /\ resp = NoResponse
  /\ \E featureArrays \in FitInputs :
       resp' = FitOutcome("extension", featureArrays,
                          ExtNormalizeKeystrokeFeatures(featureArrays))
  /\ UNCHANGED <<sampleFiles, modelFile, profiles, trainingLog, requests, pending, clientVars>>

NextFit == FitServer \/ FitExt

SpecFit == Init /\ [][NextFit]_vars

\* ------------------------------------------------------------------------
\* serialize / deserialize on their own
\* ------------------------------------------------------------------------

\* Bound on the number of Math.random() calls made before a constructor.
MaxRngOffset == 5

\* Inputs of the model's dimension.
PredictInputs == [1..Dim -> NormValues]

\* serialize then deserialize of an autoencoder, and predict before and
\* after, with the given output activation.
RoundTrip(ae, inputFeatures, library, outputActivation) ==
  /\ resp' = [operation |-> "roundtrip", library |-> library,
              original |-> ae,
              restored |-> deserialize(serialize(ae)),
              input |-> inputFeatures,
              before |-> ThreeLayers(ae, inputFeatures, outputActivation).finalOutput,
              after |-> ThreeLayers(deserialize(serialize(ae)), inputFeatures,
                                    outputActivation).finalOutput]
  /\ UNCHANGED <<sampleFiles, modelFile, profiles, trainingLog, requests, pending, clientVars>>

\* The round trip of the train-model route's SimpleAutoencoder; a behaviour
\* makes one round trip.
RoundTripServer ==
  /\ resp = NoResponse
  /\ \E seed \in Seeds, calls \in 0..MaxRngOffset, x \in PredictInputs :
       RoundTrip(NewAutoencoder(Dim, HiddenSize, BottleneckSize, seed, calls),
                 x, "server", "sigmoid")

\* The round trip of the extension library's SimpleAutoencoder.
RoundTripExt ==
  /\ resp = NoResponse
  /\ \E seed \in Seeds, calls \in 0..MaxRngOffset, x \in PredictInputs :
       RoundTrip(ExtNewAutoencoder(Dim, HiddenSize, BottleneckSize, seed, calls),
                 x, "extension", "linear")

NextSerial == RoundTripServer \/ RoundTripExt

SpecSerial == Init /\ [][NextSerial]_vars

\* ------------------------------------------------------------------------
\* Voice: aggregation of frame features
\* ------------------------------------------------------------------------

\* Bounds on the frames handed to the aggregation.
MaxFrames == 2
MaxMfcc == 2

\* The scalar features of a frame.
ScalarFeatures ==
  {"spectralCentroid", "spectralFlatness", "spectralRolloff", "spectralFlux",
   "perceptualSpread", "perceptualSharpness", "spectralKurtosis", "zcr", "rms", "energy"}

\* A frame as Meyda extracts it: its MFCC vector, every scalar feature at
\* the value given.
Frame(mfcc, value) ==
  [mfcc |-> mfcc, spectralCentroid |-> value, spectralFlatness |-> value,
   spectralRolloff |-> value, spectralFlux |-> value, perceptualSpread |-> value,
   perceptualSharpness |-> value, spectralKurtosis |-> value, zcr |-> value,
   rms |-> value, energy |-> value]

RECURSIVE FrameSum(_, _, _)
\* sum += frameData.<name>, over the frames from k on.
FrameSum(frameFeatures, name, k) ==
  IF k > Len(frameFeatures) THEN 0
  ELSE Add(frameFeatures[k][name], FrameSum(frameFeatures, name, k + 1))

RECURSIVE FrameSquaredSum(_, _, _)
\* sumSquared += frameData.<name> * frameData.<name>
FrameSquaredSum(frameFeatures, name, k) ==
  IF k > Len(frameFeatures) THEN 0
  ELSE Add(Mul(frameFeatures[k][name], frameFeatures[k][name]),
           FrameSquaredSum(frameFeatures, name, k + 1))

\* sum / totalFrames
FrameMean(frameFeatures, name) ==
  DivInt(FrameSum(frameFeatures, name, 1), Len(frameFeatures))

\* sumSquared / totalFrames - mean * mean
FrameVariance(frameFeatures, name) ==
  Sub(DivInt(FrameSquaredSum(frameFeatures, name, 1), Len(frameFeatures)),
      Mul(FrameMean(frameFeatures, name), FrameMean(frameFeatures, name)))

RECURSIVE MfccSum(_, _, _)
\* mfccSums[i] after the frames from k on: a frame adds to the coefficients
\* it has.
MfccSum(frameFeatures, i, k) ==
  IF k > Len(frameFeatures) THEN 0
  ELSE Add(IF i <= Len(frameFeatures[k].mfcc) THEN frameFeatures[k].mfcc[i] ELSE 0,
           MfccSum(frameFeatures, i, k + 1))

RECURSIVE MfccSquaredSum(_, _, _)
MfccSquaredSum(frameFeatures, i, k) ==
  IF k > Len(frameFeatures) THEN 0
  ELSE Add(IF i <= Len(frameFeatures[k].mfcc)
           THEN Mul(frameFeatures[k].mfcc[i], frameFeatures[k].mfcc[i]) ELSE 0,
           MfccSquaredSum(frameFeatures, i, k + 1))

\* The number of entries of mfccSums after the loop: the first frame's MFCC
\* length, extended by any longer frame (whose extra coefficients are added
\* to undefined entries and become NaN).
MfccLength(frameFeatures) ==
  CHOOSE m \in {Len(frameFeatures[k].mfcc) : k \in DOMAIN frameFeatures} :
    \A k \in DOMAIN frameFeatures : Len(frameFeatures[k].mfcc) <= m

\* The mean of the first coefficient only.
MfccMeansFirstOnly(frameFeatures) ==
  <<DivInt(MfccSum(frameFeatures, 1, 1), Len(frameFeatures))>>

MfccMeans(frameFeatures) ==
  [i \in 1..MfccLength(frameFeatures) |->
    IF i > Len(frameFeatures[1].mfcc) THEN NaN
    ELSE DivInt(MfccSum(frameFeatures, i, 1), Len(frameFeatures))]

MfccVariances(frameFeatures) ==
  [i \in 1..MfccLength(frameFeatures) |->
    IF i > Len(frameFeatures[1].mfcc) THEN NaN
    ELSE Sub(DivInt(MfccSquaredSum(frameFeatures, i, 1), Len(frameFeatures)),
             Mul(DivInt(MfccSum(frameFeatures, i, 1), Len(frameFeatures)),
                 DivInt(MfccSum(frameFeatures, i, 1), Len(frameFeatures))))]

\* aggregateVoiceFeatures: the session profile of the frames, or the
\* exception on an empty frame list.
aggregateVoiceFeatures(frameFeatures) ==
  IF Len(frameFeatures) = 0
  THEN Thrown("Cannot aggregate features - no frame data provided")
  ELSE [mfccMean |-> MfccMeans(frameFeatures),
        mfccVariance |-> MfccVariances(frameFeatures),
        spectralCentroidMean |-> FrameMean(frameFeatures, "spectralCentroid"),
        spectralCentroidVariance |-> FrameVariance(frameFeatures, "spectralCentroid"),
        spectralFlatnessMean |-> FrameMean(frameFeatures, "spectralFlatness"),
        spectralFlatnessVariance |-> FrameVariance(frameFeatures, "spectralFlatness"),
        spectralRolloffMean |-> FrameMean(frameFeatures, "spectralRolloff"),
        spectralRolloffVariance |-> FrameVariance(frameFeatures, "spectralRolloff"),
        spectralFluxMean |-> FrameMean(frameFeatures, "spectralFlux"),
        spectralFluxVariance |-> FrameVariance(frameFeatures, "spectralFlux"),
        perceptualSpreadMean |-> FrameMean(frameFeatures, "perceptualSpread"),
        perceptualSpreadVariance |-> FrameVariance(frameFeatures, "perceptualSpread"),
        perceptualSharpnessMean |-> FrameMean(frameFeatures, "perceptualSharpness"),
        perceptualSharpnessVariance |-> FrameVariance(frameFeatures, "perceptualSharpness"),
        spectralKurtosisMean |-> FrameMean(frameFeatures, "spectralKurtosis"),
        spectralKurtosisVariance |-> FrameVariance(frameFeatures, "spectralKurtosis"),
        zcrMean |-> FrameMean(frameFeatures, "zcr"),
        zcrVariance |-> FrameVariance(frameFeatures, "zcr"),
        rmsMean |-> FrameMean(frameFeatures, "rms"),
        rmsVariance |-> FrameVariance(frameFeatures, "rms"),
        energyMean |-> FrameMean(frameFeatures, "energy"),
        energyVariance |-> FrameVariance(frameFeatures, "energy")]

\* Feature values of the frames, and the frame lists handed to the
\* aggregation: up to MaxFrames frames whose MFCC vectors share one length
\* (Meyda extracts a fixed number of coefficients), the empty list included.
\* A frame's scalar features take the value of its first coefficient.
FrameValues == {0, One, 2 * One}
FramesOfLength(n) == {Frame(mfcc, mfcc[1]) : mfcc \in [1..n -> FrameValues]}
FrameLists ==
  UNION {[1..k -> FramesOfLength(n)] : k \in 0..MaxFrames, n \in 1..MaxMfcc}

\* One call of aggregateVoiceFeatures; a behaviour makes one call.
Aggregate ==
  /\ resp = NoResponse
  /\ \E frameFeatures \in FrameLists :
       resp' = [operation |-> "aggregate", frames |-> frameFeatures,
                result |-> aggregateVoiceFeatures(frameFeatures)]
  /\ UNCHANGED <<sampleFiles, modelFile, profiles, trainingLog, requests, pending, clientVars>>

NextAggregate == Aggregate

SpecAggregate == Init /\ [][NextAggregate]_vars

\* ------------------------------------------------------------------------
\* Voice: matching of two session profiles
\* ------------------------------------------------------------------------

\* Math.log at 1, 2, 3 and 4.
LogTable == <<0, 6931, 10986, 13863>>

\* Math.log of a number >= 1, interpolated between the table's entries
\* (and held at the last entry beyond it).
LogAtLeastOne(x) ==
  IF x \div Scale >= Len(LogTable) THEN LogTable[Len(LogTable)]
  ELSE LogTable[x \div Scale]
       + ((x % Scale) * (LogTable[(x \div Scale) + 1] - LogTable[x \div Scale])) \div Scale

\* Math.log of a positive number; the program takes it of positive numbers
\* only.
MathLog(x) ==
  IF IsNaN(x) \/ Num(x) <= 0 THEN NaN
  ELSE IF Num(x) < One THEN -LogAtLeastOne(DivFixed(One, Num(x)))
  ELSE LogAtLeastOne(Num(x))

\* Math.sqrt with NaN passed through.
SqrtOrNaN(x) == IF IsNaN(x) \/ Num(x) < 0 THEN NaN ELSE MathSqrt(Num(x))

\* applyPitchNormalization(profile).pitchMean
PitchNormalized(pitchMean) ==
  IF Truthy(pitchMean) /\ Gt(pitchMean, 0) THEN MathLog(pitchMean) ELSE pitchMean

\* applyTemporalNormalization(profile).zcrMean
ZcrNormalized(zcrMean) ==
  IF Gt(zcrMean, 0) THEN MathLog(Add(zcrMean, One)) ELSE zcrMean

\* applySpectralNormalization(profile).energyMean and .spectralCentroidMean
EnergyNormalized(energyMean) ==
  IF Gt(energyMean, 0) THEN MathLog(Add(energyMean, One)) ELSE energyMean
CentroidNormalized(spectralCentroidMean) ==
  IF Gt(spectralCentroidMean, 0) THEN MathLog(spectralCentroidMean) ELSE spectralCentroidMean

\* The input validation of the match: a profile without MFCC means, or with
\* an empty MFCC-means vector.
LacksMfcc(profile) == ~Has(profile, "mfccMean") \/ Len(profile.mfccMean) = 0

\* The validation with the emptiness test left out.
MissingMfccAbsentOnly(profile1, profile2) ==
  ~Has(profile1, "mfccMean") \/ ~Has(profile2, "mfccMean")

MissingMfccFeatures(profile1, profile2) == LacksMfcc(profile1) \/ LacksMfcc(profile2)

\* A comparison length taken from the first profile alone.
MfccComparisonLengthFirst(profile1, profile2) == Len(profile1.mfccMean)

\* Math.min(profile1.mfccMean.length, profile2.mfccMean.length)
MfccComparisonLength(profile1, profile2) ==
  IF Len(profile1.mfccMean) <= Len(profile2.mfccMean)
  THEN Len(profile1.mfccMean) ELSE Len(profile2.mfccMean)

RECURSIVE MfccSquaredDistance(_, _, _, _)
\* The sum of squared coefficient differences over the first n coefficients.
MfccSquaredDistance(profile1, profile2, i, n) ==
  IF i > n THEN 0
  ELSE Add(Mul(Sub(Get(profile1.mfccMean, i), Get(profile2.mfccMean, i)),
               Sub(Get(profile1.mfccMean, i), Get(profile2.mfccMean, i))),
           MfccSquaredDistance(profile1, profile2, i + 1, n))

\* mfccDistanceScore
MfccDistance(profile1, profile2) ==
  SqrtOrNaN(DivInt(MfccSquaredDistance(profile1, profile2, 1,
                                       MfccComparisonLength(profile1, profile2)),
                   MfccComparisonLength(profile1, profile2)))

\* Math.abs(a - b)
AbsDifference(a, b) == MathAbs(Sub(a, b))

\* pitchDifference: null unless both normalised pitch means are truthy.
PitchDifference(profile1, profile2) ==
  IF Truthy(PitchNormalized(profile1.pitchMean)) /\ Truthy(PitchNormalized(profile2.pitchMean))
  THEN AbsDifference(PitchNormalized(profile1.pitchMean), PitchNormalized(profile2.pitchMean))
  ELSE Null

\* The five similarity scores, from the differences.
MfccSimilarity(mfccDistance) == MathMax(0, Sub(One, Div(mfccDistance, 2 * One)))
SpectralSimilarity(centroidDiff, flatnessDiff, rolloffDiff) ==
  MathMax(0, Sub(One, Add(Add(Div(Mul(Lit(4, 10), centroidDiff), One),
                              Div(Mul(Lit(3, 10), flatnessDiff), Lit(3, 10))),
                          Div(Mul(Lit(3, 10), rolloffDiff), One))))
VoiceQualitySimilarity(spreadDiff, sharpnessDiff) ==
  MathMax(0, Sub(One, Add(Div(Mul(Lit(5, 10), spreadDiff), Lit(3, 10)),
                          Div(Mul(Lit(5, 10), sharpnessDiff), Lit(3, 10)))))
TemporalSimilarity(zcrDiff, energyDiff) ==
  MathMax(0, Sub(One, Add(Div(Mul(Lit(6, 10), zcrDiff), Lit(5, 10)),
                          Div(Mul(Lit(4, 10), energyDiff), One))))
PitchSimilarity(pitchDiff) ==
  IF pitchDiff # Null THEN MathMax(0, Sub(One, Div(pitchDiff, One))) ELSE Lit(5, 10)

RECURSIVE SquaredDeviations(_, _, _)
\* The sum of (score - average)^2 over the scores from k on.
SquaredDeviations(scores, average, k) ==
  IF k > Len(scores) THEN 0
  ELSE Add(Mul(Sub(scores[k], average), Sub(scores[k], average)),
           SquaredDeviations(scores, average, k + 1))

\* confidenceLevel
MatchConfidence(scores) ==
  MathMax(0, Sub(One, MulInt(DivInt(SquaredDeviations(scores,
                                      DivInt(SumList(scores, 1), Len(scores)), 1),
                                    Len(scores)), 2)))

\* The result of the match, from the five scores and the differences.
MatchResult(mfcc, spectral, quality, temporal, pitch, metrics) ==
  [overallSimilarity |->
     Add(Add(Add(Add(Mul(mfcc, Lit(6, 10)), Mul(spectral, Lit(25, 100))),
                 Mul(quality, Lit(1, 10))),
             Mul(temporal, Lit(3, 100))),
         Mul(pitch, Lit(2, 100))),
   pitchNormalizedSimilarity |->
     Add(Add(Mul(mfcc, Lit(7, 10)), Mul(spectral, Lit(2, 10))), Mul(pitch, Lit(1, 10))),
   tempoNormalizedSimilarity |->
     Add(Add(Mul(mfcc, Lit(6, 10)), Mul(spectral, Lit(3, 10))), Mul(temporal, Lit(1, 10))),
   spectralSimilarity |-> spectral,
   voiceQualitySimilarity |-> quality,
   confidenceScore |-> MatchConfidence(<<mfcc, spectral, quality, temporal, pitch>>),
   detailedMetrics |-> metrics]

\* calculateComprehensiveVoiceMatch: the result, or the exception of the
\* input validation.
calculateComprehensiveVoiceMatch(profile1, profile2) ==
  IF MissingMfccFeatures(profile1, profile2)
  THEN Thrown("Missing MFCC features - cannot perform voice comparison")
  ELSE MatchResult(
         MfccSimilarity(MfccDistance(profile1, profile2)),
         SpectralSimilarity(
           AbsDifference(CentroidNormalized(profile1.spectralCentroidMean),
                         CentroidNormalized(profile2.spectralCentroidMean)),
           AbsDifference(profile1.spectralFlatnessMean, profile2.spectralFlatnessMean),
           AbsDifference(profile1.spectralRolloffMean, profile2.spectralRolloffMean)),
         VoiceQualitySimilarity(
           AbsDifference(profile1.perceptualSpreadMean, profile2.perceptualSpreadMean),
           AbsDifference(profile1.perceptualSharpnessMean, profile2.perceptualSharpnessMean)),
         TemporalSimilarity(
           AbsDifference(ZcrNormalized(profile1.zcrMean), ZcrNormalized(profile2.zcrMean)),
           AbsDifference(EnergyNormalized(profile1.energyMean),
                         EnergyNormalized(profile2.energyMean))),
         PitchSimilarity(PitchDifference(profile1, profile2)),
         [mfccDistance |-> MfccDistance(profile1, profile2),
          spectralCentroidDiff |->
            AbsDifference(CentroidNormalized(profile1.spectralCentroidMean),
                          CentroidNormalized(profile2.spectralCentroidMean)),
          zcrDiff |-> AbsDifference(ZcrNormalized(profile1.zcrMean),
                                    ZcrNormalized(profile2.zcrMean)),
          pitchDiff |-> PitchDifference(profile1, profile2),
          energyDiff |-> AbsDifference(EnergyNormalized(profile1.energyMean),
                                       EnergyNormalized(profile2.energyMean))])

\* A session profile: the MFCC means, the pitch mean (undefined when the
\* profile has none), the spectral centroid, and every other mean at the
\* value given.
VoiceProfile(mfccMean, pitchMean, spectralCentroidMean, value) ==
  [mfccMean |-> mfccMean, pitchMean |-> pitchMean,
   spectralCentroidMean |-> spectralCentroidMean,
   spectralFlatnessMean |-> value, spectralRolloffMean |-> value,
   perceptualSpreadMean |-> value, perceptualSharpnessMean |-> value,
   zcrMean |-> value, rmsMean |-> value, energyMean |-> value]

\* The profiles handed to the match: with MFCC means of one or two
\* coefficients, with an empty MFCC-means vector, and without MFCC means.
MfccMeanVectors == {<<>>, <<0>>, <<One>>, <<0, 0>>, <<One, 2 * One>>}
CompleteProfiles ==
  {VoiceProfile(m, pitch, centroid, v) :
     m \in MfccMeanVectors, pitch \in {Undefined, One, 2 * One},
     centroid \in {0, 2 * One}, v \in {0, Lit(1, 10)}}
MatchProfiles ==
  CompleteProfiles \cup {WithoutField(VoiceProfile(<<>>, Undefined, 0, 0), "mfccMean")}

\* One comparison of two profiles, made in both orders; a behaviour makes
\* one comparison.
Match ==
  /\ resp = NoResponse
  /\ \E profile1 \in MatchProfiles, profile2 \in MatchProfiles :
       resp' = [operation |-> "match", profile1 |-> profile1, profile2 |-> profile2,
                forward |-> calculateComprehensiveVoiceMatch(profile1, profile2),
                backward |-> calculateComprehensiveVoiceMatch(profile2, profile1)]
  /\ UNCHANGED <<sampleFiles, modelFile, profiles, trainingLog, requests, pending, clientVars>>

NextMatch == Match

SpecMatch == Init /\ [][NextMatch]_vars

\* ------------------------------------------------------------------------
\* Keystroke feature extractors (analyzer hook, popup, content script)
\* ------------------------------------------------------------------------

\* Bound on the number of keys of a trace.
MaxKeys == 12

\* Number.POSITIVE_INFINITY, a value above the numeric range.
Infinity == 2000000001

\* while (features.length < PASSWORD_LENGTH * 3 + 1) features.push(0)
FeatureCount == PASSWORD_LENGTH * 3 + 1

\* The keystroke buffer of a trace of n keys: key i goes down at 10 i ms and
\* up 5 or 6 ms later; the key numbered unreleased (0: none) has no keyup
\* event.
KeyDownAt(i) == i * 10 * One
KeyUpAt(i) == KeyDownAt(i) + (5 + (i % 2)) * One
KeyEvents(i, unreleased) ==
  <<[key |-> [name |-> "character", position |-> i], type |-> "keydown",
     timestamp |-> KeyDownAt(i)]>>
  \o (IF i = unreleased THEN <<>>
      ELSE <<[key |-> [name |-> "character", position |-> i], type |-> "keyup",
              timestamp |-> KeyUpAt(i)]>>)

RECURSIVE KeystrokeBuffer(_, _, _)
KeystrokeBuffer(i, n, unreleased) ==
  IF i > n THEN <<>>
  ELSE KeyEvents(i, unreleased) \o KeystrokeBuffer(i + 1, n, unreleased)

\* keystrokeBuffer.filter(k => k.type === type)
IsKeyDown(k) == k.type = "keydown"
IsKeyUp(k) == k.type = "keyup"
KeyDownEvents(keystrokeBuffer) == SelectSeq(keystrokeBuffer, IsKeyDown)
KeyUpEvents(keystrokeBuffer) == SelectSeq(keystrokeBuffer, IsKeyUp)

\* The indices of the keyup events of the key after the timestamp.
UpIndices(keyUpEvents, key, timestamp) ==
  {j \in DOMAIN keyUpEvents :
     keyUpEvents[j].key = key /\ keyUpEvents[j].timestamp > timestamp}

\* keyUpEvents.find(up => up.key === key && up.timestamp > timestamp): the
\* timestamp of the first such event, or undefined.
FindUp(keyUpEvents, key, timestamp) ==
  IF UpIndices(keyUpEvents, key, timestamp) = {} THEN Undefined
  ELSE keyUpEvents[CHOOSE j \in UpIndices(keyUpEvents, key, timestamp) :
                     \A m \in UpIndices(keyUpEvents, key, timestamp) : j <= m].timestamp

RECURSIVE HoldTimes(_, _, _)
\* One hold time per key that has a keyup event.
HoldTimes(keyDownEvents, keyUpEvents, i) ==
  IF i > Len(keyDownEvents) THEN <<>>
  ELSE (IF FindUp(keyUpEvents, keyDownEvents[i].key, keyDownEvents[i].timestamp) = Undefined
        THEN <<>>
        ELSE <<FindUp(keyUpEvents, keyDownEvents[i].key, keyDownEvents[i].timestamp)
               - keyDownEvents[i].timestamp>>)
       \o HoldTimes(keyDownEvents, keyUpEvents, i + 1)

\* One down-to-down time per pair of consecutive keys.
DdTimes(keyDownEvents) ==
  [i \in 1..(Len(keyDownEvents) - 1) |->
    keyDownEvents[i + 1].timestamp - keyDownEvents[i].timestamp]

RECURSIVE UdTimes(_, _, _, _)
\* The up-to-down times: one per pair of consecutive keys whose first key
\* has a keyup event; with fallback, the down-to-down time stands in for a
\* key without one.
UdTimes(keyDownEvents, keyUpEvents, i, fallback) ==
  IF i > Len(keyDownEvents) - 1 THEN <<>>
  ELSE (IF FindUp(keyUpEvents, keyDownEvents[i].key, keyDownEvents[i].timestamp) # Undefined
        THEN <<keyDownEvents[i + 1].timestamp
               - FindUp(keyUpEvents, keyDownEvents[i].key, keyDownEvents[i].timestamp)>>
        ELSE IF fallback
        THEN <<keyDownEvents[i + 1].timestamp - keyDownEvents[i].timestamp>>
        ELSE <<>>)
       \o UdTimes(keyDownEvents, keyUpEvents, i + 1, fallback)

\* times.slice(0, count)
Slice(times, count) == SubSeq(times, 1, IF Len(times) < count THEN Len(times) ELSE count)

\* The mean of a list, 0 for the empty list.
MeanOrZero(times) == IF Len(times) > 0 THEN DivInt(SumList(times, 1), Len(times)) ELSE 0

\* The standard deviation of the hold times, 0 when there are none.
PressureVariance(holdTimes) ==
  IF Len(holdTimes) > 0
  THEN SqrtOrNaN(DivInt(SquaredDeviations(holdTimes, MeanOrZero(holdTimes), 1),
                        Len(holdTimes)))
  ELSE 0

RECURSIVE PadWithZeros(_)
PadWithZeros(features) ==
  IF Len(features) < FeatureCount THEN PadWithZeros(Append(features, 0)) ELSE features

\* The feature vector: the sliced timing lists, the four scalar features,
\* and the padding.
FeatureVector(holdTimes, ddTimes, udTimes, scalars) ==
  PadWithZeros(Slice(holdTimes, PASSWORD_LENGTH) \o Slice(ddTimes, PASSWORD_LENGTH - 1)
               \o Slice(udTimes, PASSWORD_LENGTH - 1) \o scalars)

\* keys / (time / 1000)
KeysPerSecond(keys, time) == Div(keys * One, DivInt(time, 1000))

\* Math.max(sum of holds, sum of down-downs, sum of up-downs) || 0.001
TotalTypingTime(holdTimes, ddTimes, udTimes) ==
  OrElse(MathMax(MathMax(SumList(holdTimes, 1), SumList(ddTimes, 1)), SumList(udTimes, 1)),
         Lit(1, 1000))

\* rawData.filter(k => k.key === "Backspace").length
TypoCount(rawData) == Len(SelectSeq(rawData, LAMBDA k : k.key.name = "Backspace")) * One

\* extractBiometricFeatures of the analyzer hook, from the three timing
\* lists.
BiometricFeaturesFrom(rawData, holdTimes, ddTimes, udTimes) ==
  FeatureVector(holdTimes, ddTimes, udTimes,
    <<IF Len(KeyDownEvents(rawData)) = 0 THEN 0
      ELSE KeysPerSecond(Len(KeyDownEvents(rawData)),
                         TotalTypingTime(holdTimes, ddTimes, udTimes)),
      MeanOrZero(udTimes), TypoCount(rawData), PressureVariance(holdTimes)>>)

extractBiometricFeatures(rawData) ==
  BiometricFeaturesFrom(rawData,
    HoldTimes(KeyDownEvents(rawData), KeyUpEvents(rawData), 1),
    DdTimes(KeyDownEvents(rawData)),
    UdTimes(KeyDownEvents(rawData), KeyUpEvents(rawData), 1, TRUE))

\* The time from the first to the last keydown event, 0 without keys.
TotalTime(keyDownEvents) ==
  IF Len(keyDownEvents) > 0
  THEN keyDownEvents[Len(keyDownEvents)].timestamp - keyDownEvents[1].timestamp ELSE 0

\* extractKeystrokeFeatures of the popup, from the three timing lists.
PopupFeaturesFrom(keyDownEvents, holdTimes, ddTimes, udTimes) ==
  FeatureVector(holdTimes, ddTimes, udTimes,
    <<IF TotalTime(keyDownEvents) > 0
      THEN KeysPerSecond(Len(keyDownEvents), TotalTime(keyDownEvents)) ELSE 0,
      MeanOrZero(udTimes), 0, PressureVariance(holdTimes)>>)

PopupExtractKeystrokeFeatures(keystrokeBuffer) ==
  PopupFeaturesFrom(KeyDownEvents(keystrokeBuffer),
    HoldTimes(KeyDownEvents(keystrokeBuffer), KeyUpEvents(keystrokeBuffer), 1),
    DdTimes(KeyDownEvents(keystrokeBuffer)),
    UdTimes(KeyDownEvents(keystrokeBuffer), KeyUpEvents(keystrokeBuffer), 1, FALSE))

\* extractKeystrokeFeatures of the content script: it never fills udTimes,
\* and the typing speed of a single key is 1 / 0.
ContentExtractKeystrokeFeatures(keystrokeBuffer) ==
  FeatureVector(
    HoldTimes(KeyDownEvents(keystrokeBuffer), KeyUpEvents(keystrokeBuffer), 1),
    DdTimes(KeyDownEvents(keystrokeBuffer)),
    <<>>,
    <<IF Len(KeyDownEvents(keystrokeBuffer)) = 0 THEN 0
      ELSE IF TotalTime(KeyDownEvents(keystrokeBuffer)) = 0 THEN Infinity
      ELSE KeysPerSecond(Len(KeyDownEvents(keystrokeBuffer)),
                         TotalTime(KeyDownEvents(keystrokeBuffer))),
      0, 0, 0>>)

\* The kind of feature at each index of the vector an extractor builds: the
\* array literal holds the sliced hold, down-down and up-down times, then
\* the four scalars, and the loop after it pads.
ScalarKinds == <<"typingSpeed", "avgFlightTime", "errorCount", "pressureVariance">>
FeatureKinds(holdTimes, ddTimes, udTimes) ==
  LET listed == [i \in 1..Len(Slice(holdTimes, PASSWORD_LENGTH)) |-> "holdTime"]
                \o [i \in 1..Len(Slice(ddTimes, PASSWORD_LENGTH - 1)) |-> "ddTime"]
                \o [i \in 1..Len(Slice(udTimes, PASSWORD_LENGTH - 1)) |-> "udTime"]
                \o ScalarKinds
  IN [i \in 1..(IF Len(listed) < FeatureCount THEN FeatureCount ELSE Len(listed)) |->
       IF i <= Len(listed) THEN listed[i] ELSE "padding"]

\* The kinds in the popup's vector and in the content script's, whose
\* udTimes stays empty and whose last three scalars are written as 0.
PopupFeatureKinds(keystrokeBuffer) ==
  FeatureKinds(
    HoldTimes(KeyDownEvents(keystrokeBuffer), KeyUpEvents(keystrokeBuffer), 1),
    DdTimes(KeyDownEvents(keystrokeBuffer)),
    UdTimes(KeyDownEvents(keystrokeBuffer), KeyUpEvents(keystrokeBuffer), 1, FALSE))
ContentFeatureKinds(keystrokeBuffer) ==
  FeatureKinds(
    HoldTimes(KeyDownEvents(keystrokeBuffer), KeyUpEvents(keystrokeBuffer), 1),
    DdTimes(KeyDownEvents(keystrokeBuffer)),
    <<>>)

\* The traces: up to MaxKeys keys, all released or (with two or more keys)
\* one of them never released.
Traces ==
  {t \in [keys : 0..MaxKeys, unreleased : 0..MaxKeys] :
     t.unreleased <= t.keys /\ (t.unreleased > 0 => t.keys >= 2)}

\* The outcome of one extraction.
Extracted(extractor, trace, features) ==
  [operation |-> "extract", extractor |-> extractor, trace |-> trace,
   features |-> features]

\* One call of an extractor on a trace; a behaviour makes one call.
ExtractBiometric ==
  /\ resp = NoResponse
  /\ \E t \in Traces :
       resp' = Extracted("analyzer", t,
                 extractBiometricFeatures(KeystrokeBuffer(1, t.keys, t.unreleased)))
  /\ UNCHANGED <<sampleFiles, modelFile, profiles, trainingLog, requests, pending, clientVars>>

ExtractPopup ==
  /\ resp = NoResponse
  /\ \E t \in Traces :
       resp' = Extracted("popup", t,
                 PopupExtractKeystrokeFeatures(KeystrokeBuffer(1, t.keys, t.unreleased)))
  /\ UNCHANGED <<sampleFiles, modelFile, profiles, trainingLog, requests, pending, clientVars>>

ExtractContent ==
  /\ resp = NoResponse
  /\ \E t \in Traces :
       resp' = Extracted("content", t,
                 ContentExtractKeystrokeFeatures(KeystrokeBuffer(1, t.keys, t.unreleased)))
  /\ UNCHANGED <<sampleFiles, modelFile, profiles, trainingLog, requests, pending, clientVars>>

NextExtract == ExtractBiometric \/ ExtractPopup \/ ExtractContent

SpecExtract == Init /\ [][NextExtract]_vars

\* ------------------------------------------------------------------------
\* The two routes under concurrent requests: each handler runs from one
\* await to the next, and handlers of different requests interleave there
\* ------------------------------------------------------------------------

\* Bounds: requests in flight at once, and requests over a run.
MaxPending == 2
MaxConcRequests == 3

\* The requests that arrive.
ConcTrainingVectors == {FullVector(Lit(12, 10)), ShortVector}
ConcLiveVectors == {FullVector(One), LongVector}

\* Four samples are stored when the requests start to arrive, so that a
\* request with sampleCount = SAMPLES_REQUIRED - 1 trains.
InitConc ==
  /\ sampleFiles = [u \in Users |->
                     [i \in 0..MaxSampleCount |->
                       IF i < SAMPLES_REQUIRED - 1 THEN SampleFile(FullVector(One))
                       ELSE NoFile]]
  /\ modelFile = [u \in Users |-> NoModel]
  /\ profiles = [u \in Users |-> NoModel]
  /\ trainingLog = [u \in Users |-> NoLog]
  /\ resp = NoResponse
  /\ requests = 0
  /\ pending = <<>>
  /\ InitClients

\* pending without its i-th request.
Without(i) == [k \in 1..(Len(pending) - 1) |-> IF k < i THEN pending[k] ELSE pending[k + 1]]

\* A train request arrives: the handler parses the body and suspends at the
\* write of the sample file.
TrainArrive(username, features, sampleCount, seed) ==
  /\ requests < MaxConcRequests
  /\ Len(pending) < MaxPending
  /\ pending' = Append(pending,
                  [kind |-> "train", username |-> username, features |-> features,
                   sampleCount |-> sampleCount, seed |-> seed, pc |-> "writeSample"])
  /\ requests' = requests + 1
  /\ UNCHANGED <<sampleFiles, modelFile, profiles, trainingLog, resp, clientVars>>

\* await fs.writeFile(sample_<sampleCount>.json): the sample is stored; below
\* the required count the handler answers at once.
TrainWriteSample(i) ==
  /\ i \in DOMAIN pending
  /\ pending[i].kind = "train"
  /\ pending[i].pc = "writeSample"
  /\ sampleFiles' = [sampleFiles EXCEPT ![pending[i].username][pending[i].sampleCount] =
                       SampleFile(pending[i].features)]
  /\ IF ReadyToTrain(pending[i].sampleCount)
     THEN /\ pending' = [pending EXCEPT ![i].pc = "loadSamples"]
          /\ UNCHANGED resp
     ELSE /\ pending' = Without(i)
          /\ resp' = TrainSuccessResponse
  /\ UNCHANGED <<modelFile, profiles, trainingLog, requests, clientVars>>

\* The load loop (await fs.readFile per sample) followed by the training,
\* which runs without suspending up to the write of model.json.
TrainLoadSamples(i) ==
  /\ i \in DOMAIN pending
  /\ pending[i].kind = "train"
  /\ pending[i].pc = "loadSamples"
  /\ \E collectedSamples \in {CollectSamples(sampleFiles[pending[i].username], 0,
                                             pending[i].sampleCount)} :
       IF EnoughSamples(collectedSamples)
       THEN /\ pending' = [pending EXCEPT ![i] =
                            [kind |-> "train", username |-> pending[i].username,
                             collectedSamples |-> collectedSamples,
                             seed |-> pending[i].seed, pc |-> "writeModel"]]
            /\ UNCHANGED resp
       ELSE /\ pending' = Without(i)
            /\ resp' = TrainSuccessResponse
  /\ UNCHANGED <<sampleFiles, modelFile, profiles, trainingLog, requests, clientVars>>

\* await fs.writeFile(model.json) with the model trained from the samples
\* loaded, then the answer.
TrainWriteModel(i) ==
  /\ i \in DOMAIN pending
  /\ pending[i].kind = "train"
  /\ pending[i].pc = "writeModel"
  /\ \E run \in {TrainRun(pending[i].collectedSamples, pending[i].seed)} :
       \E c \in PercentileCandidates(run.reconstructionErrors,
                                     Percentile95Index(Len(pending[i].collectedSamples))) :
          /\ modelFile' = [modelFile EXCEPT ![pending[i].username] =
                             ServerModel(pending[i].username, run, c)]
          /\ trainingLog' =
               [trainingLog EXCEPT ![pending[i].username] =
                 [samples |-> pending[i].collectedSamples,
                  reconstructionErrors |-> run.reconstructionErrors,
                  percentileValue |-> c,
                  trainer |-> "server"]]
  /\ pending' = Without(i)
  /\ resp' = TrainSuccessResponse
  /\ UNCHANGED <<sampleFiles, profiles, requests, clientVars>>

\* An authentication request arrives: the handler suspends at the read of
\* model.json.
AuthArrive(username, features) ==
  /\ requests < MaxConcRequests
  /\ Len(pending) < MaxPending
  /\ pending' = Append(pending,
                  [kind |-> "auth", username |-> username, features |-> features,
                   pc |-> "readModel"])
  /\ requests' = requests + 1
  /\ UNCHANGED <<sampleFiles, modelFile, profiles, trainingLog, resp, clientVars>>

\* await fs.readFile(model.json), then the decision and the answer.
AuthReadModel(i) ==
  /\ i \in DOMAIN pending
  /\ pending[i].kind = "auth"
  /\ pending[i].pc = "readModel"
  /\ resp' = RouteAuthenticate(modelFile[pending[i].username], pending[i].features)
  /\ pending' = Without(i)
  /\ UNCHANGED <<sampleFiles, modelFile, profiles, trainingLog, requests, clientVars>>

NextConc ==
  \/ \E u \in Users, f \in ConcTrainingVectors,
        n \in (SAMPLES_REQUIRED - 2)..MaxSampleCount, seed \in Seeds :
       TrainArrive(u, f, n, seed)
  \/ \E i \in 1..MaxPending : TrainWriteSample(i)
  \/ \E i \in 1..MaxPending : TrainLoadSamples(i)
  \/ \E i \in 1..MaxPending : TrainWriteModel(i)
  \/ \E u \in Users, f \in ConcLiveVectors : AuthArrive(u, f)
  \/ \E i \in 1..MaxPending : AuthReadModel(i)

SpecConc == InitConc /\ [][NextConc]_vars

\* ------------------------------------------------------------------------
\* Voice fallback after failed keystroke authentications
\* (KeystrokeCapture component; content script and background script)
\* ------------------------------------------------------------------------

\* Most failed keystroke authentications in a row a client is driven through.
MaxAuthFailures == 5

\* Most voice modals the content script is left to stack before the next
\* failure.
MaxVoiceModals == 2

\* newFailureCount >= 2 (component), contentState.authFailureCount >= 2
\* (content script), authFailureCount >= MAX_FAILURES_BEFORE_VOICE (background).
VoiceFallbackRequired(failureCount) == failureCount >= MAX_FAILURES_BEFORE_VOICE

\* What the authenticate call of the component can come to: a decision, an
\* exception, or no call at all because username or password is empty.
AuthOutcomes == {"authenticated", "rejected", "thrown", "incomplete"}

\* processAuthentication of the component.
ProcessAuthentication(outcome) ==
  /\ outcome = "rejected" => keystrokeCapture.authFailureCount < MaxAuthFailures
  /\ keystrokeCapture' =
       CASE outcome = "authenticated" ->
              [keystrokeCapture EXCEPT !.authFailureCount = 0, !.authResult = "success"]
         [] outcome = "rejected" ->
              LET newFailureCount == keystrokeCapture.authFailureCount + 1
              IN  IF VoiceFallbackRequired(newFailureCount)
                  THEN [keystrokeCapture EXCEPT !.authFailureCount = newFailureCount,
                                                !.showVoiceAuthDialog = TRUE,
                                                !.authResult = "voice required"]
                  ELSE [keystrokeCapture EXCEPT !.authFailureCount = newFailureCount,
                                                !.authResult = "failed"]
         [] outcome = "thrown" -> [keystrokeCapture EXCEPT !.authResult = "breach"]
         [] OTHER -> [keystrokeCapture EXCEPT !.authResult = "incomplete"]
  /\ failedKeystrokeAuths' =
       CASE outcome = "authenticated" -> [failedKeystrokeAuths EXCEPT !.component = 0]
         [] outcome = "rejected" -> [failedKeystrokeAuths EXCEPT !.component = @ + 1]
         [] OTHER -> failedKeystrokeAuths
  /\ UNCHANGED <<contentState, extensionState, serverVars, besideFallbackVars>>

\* handleVoiceAuthenticationSuccess of the component (onSuccess of the dialog).
HandleVoiceAuthenticationSuccess ==
  /\ keystrokeCapture.showVoiceAuthDialog
  /\ keystrokeCapture' = [keystrokeCapture EXCEPT !.authFailureCount = 0,
                                                  !.authResult = "voice success"]
  /\ failedKeystrokeAuths' = [failedKeystrokeAuths EXCEPT !.component = 0]
  /\ UNCHANGED <<contentState, extensionState, serverVars, besideFallbackVars>>

\* onClose of the component's voice dialog.
CloseVoiceAuthDialog ==
  /\ keystrokeCapture.showVoiceAuthDialog
  /\ keystrokeCapture' = [keystrokeCapture EXCEPT !.showVoiceAuthDialog = FALSE]
  /\ UNCHANGED <<contentState, extensionState, failedKeystrokeAuths, serverVars, besideFallbackVars>>

\* handlePasswordFieldFocus of the content script, answered by the background
\* script with ACTIVATE_CAPTURE (an active profile exists). The listener is on
\* the document's focusin event and does not look at the overlays shown, so a
\* password field focused from the keyboard or by the page starts a capture
\* under an open voice modal as well. The extension context is valid
\* throughout (validateExtensionContext returns true).
HandlePasswordFieldFocus ==
  /\ ~contentState.websiteClosed
  /\ contentState' = [contentState EXCEPT !.actualPassword = "",
                                          !.isActive = TRUE, !.isCapturing = TRUE]
  /\ extensionState' = [extensionState EXCEPT !.isActive = TRUE, !.authFailureCount = 0]
  /\ UNCHANGED <<keystrokeCapture, failedKeystrokeAuths, serverVars, besideFallbackVars>>

\* handleKeyDown of the content script for the printable keys of a password:
\* the characters are appended to contentState.actualPassword.
HandleKeyDown ==
  /\ ~contentState.websiteClosed
  /\ contentState.isCapturing
  /\ contentState' = [contentState EXCEPT !.actualPassword = "typed"]
  /\ UNCHANGED <<keystrokeCapture, extensionState, failedKeystrokeAuths, serverVars, besideFallbackVars>>

\* handleAuthenticationResult of the background script: its state after the
\* AUTHENTICATION_RESULT message.
HandleAuthenticationResult(state, success) ==
  IF success
  THEN [state EXCEPT !.authFailureCount = 0, !.isVoiceAuthRequired = FALSE]
  ELSE [state EXCEPT !.authFailureCount = @ + 1,
                     !.isVoiceAuthRequired =
                        @ \/ VoiceFallbackRequired(state.authFailureCount + 1)]

\* handleAuthenticationResponse of the content script for the decision on the
\* captured keystrokes (Enter pressed, processAuthentication found a password),
\* with the AUTHENTICATION_RESULT message it sends and the
\* SHOW_VOICE_AUTH_MODAL message the background script may answer with. A
\* success starts the timer of the automatic login; the retry branch of a
\* failure clears the captured password, the voice branch keeps it.
HandleAuthenticationResponse(authenticated) ==
  /\ ~contentState.websiteClosed
  /\ contentState.isCapturing
  /\ contentState.actualPassword # ""
  /\ ~authenticated => /\ contentState.authFailureCount < MaxAuthFailures
                       /\ contentState.voiceModals < MaxVoiceModals
  /\ LET failureCount == IF authenticated THEN 0 ELSE contentState.authFailureCount + 1
         background == HandleAuthenticationResult(extensionState, authenticated)
         triggered == ~authenticated /\ VoiceFallbackRequired(failureCount)
         requested == ~authenticated /\ VoiceFallbackRequired(background.authFailureCount)
     IN  /\ contentState' =
              [contentState EXCEPT
                 !.authFailureCount = failureCount,
                 !.isCapturing = ~authenticated /\ ~triggered,
                 !.isActive = IF authenticated THEN FALSE ELSE @,
                 !.actualPassword = IF authenticated \/ triggered THEN @ ELSE "",
                 !.timers = IF authenticated THEN @ \cup {"autoLogin"} ELSE @,
                 !.voiceModals = @ + (IF triggered THEN 1 ELSE 0)
                                   + (IF requested THEN 1 ELSE 0)]
         /\ extensionState' = background
  /\ failedKeystrokeAuths' =
       [failedKeystrokeAuths EXCEPT !.content = IF authenticated THEN 0 ELSE @ + 1]
  /\ UNCHANGED <<keystrokeCapture, serverVars, besideFallbackVars>>

\* The callback of processAuthentication when the background script answers
\* the KEYSTROKE_DATA message with an error (the password is cleared for the
\* retry) or without success (only the keystroke buffer is cleared).
HandleAuthenticationError(withError) ==
  /\ ~contentState.websiteClosed
  /\ contentState.isCapturing
  /\ contentState.actualPassword # ""
  /\ contentState' = [contentState EXCEPT !.actualPassword = IF withError THEN "" ELSE @]
  /\ UNCHANGED <<keystrokeCapture, extensionState, failedKeystrokeAuths, serverVars, besideFallbackVars>>

\* The click handler of the voice modal's Verify button. A success cleans the
\* overlays up, resets the state, tells the background script
\* (VOICE_AUTH_RESULT, handleVoiceAuthResult) and starts the timer of the
\* automatic login; a failure that brings the count to 5 starts the timer that
\* removes the modal and then asks for the website to be closed.
VerifyVoice(isVoiceAuthSuccessful) ==
  /\ ~contentState.websiteClosed
  /\ contentState.voiceModals > 0
  /\ IF isVoiceAuthSuccessful
     THEN /\ contentState' = [contentState EXCEPT !.authFailureCount = 0,
                                                  !.isCapturing = FALSE,
                                                  !.isActive = FALSE,
                                                  !.timers = @ \cup {"autoLogin"},
                                                  !.voiceModals = 0]
          /\ extensionState' = [extensionState EXCEPT !.authFailureCount = 0,
                                                      !.isVoiceAuthRequired = FALSE]
          /\ failedKeystrokeAuths' = [failedKeystrokeAuths EXCEPT !.content = 0]
     ELSE /\ contentState.authFailureCount <= MaxAuthFailures
          /\ LET failureCount == contentState.authFailureCount + 1
             IN  contentState' =
                   IF failureCount >= MAX_FAILED_ATTEMPTS
                   THEN [contentState EXCEPT !.authFailureCount = failureCount,
                                             !.timers = @ \cup {"removeModal"}]
                   ELSE [contentState EXCEPT !.authFailureCount = failureCount]
          /\ UNCHANGED <<extensionState, failedKeystrokeAuths>>
  /\ UNCHANGED <<keystrokeCapture, serverVars, besideFallbackVars>>

\* The click handler of the voice modal's close button.
CloseVoiceModal ==
  /\ ~contentState.websiteClosed
  /\ contentState.voiceModals > 0
  /\ contentState' = [contentState EXCEPT !.voiceModals = @ - 1,
                                          !.isCapturing = FALSE,
                                          !.isActive = FALSE]
  /\ UNCHANGED <<keystrokeCapture, extensionState, failedKeystrokeAuths, serverVars, besideFallbackVars>>

\* The timer of the automatic login after a success: autoCompleteLogin fills
\* the field with the captured password and submits the form, and starts the
\* 2-second timer that clears the password.
AutoLoginTimer ==
  /\ ~contentState.websiteClosed
  /\ "autoLogin" \in contentState.timers
  /\ contentState' = [contentState EXCEPT
                        !.timers = (@ \ {"autoLogin"}) \cup {"clearPassword"}]
  /\ UNCHANGED <<keystrokeCapture, extensionState, failedKeystrokeAuths, serverVars, besideFallbackVars>>

\* The 2-second timer after the automatic login: contentState.actualPassword = ''.
ClearPasswordTimer ==
  /\ ~contentState.websiteClosed
  /\ "clearPassword" \in contentState.timers
  /\ contentState' = [contentState EXCEPT !.actualPassword = "",
                                          !.timers = @ \ {"clearPassword"}]
  /\ UNCHANGED <<keystrokeCapture, extensionState, failedKeystrokeAuths, serverVars, besideFallbackVars>>

\* The 2-second timer after the failure that reached 5: the modal is removed
\* and the 3-second timer of the close request starts.
RemoveModalTimer ==
  /\ ~contentState.websiteClosed
  /\ "removeModal" \in contentState.timers
  /\ contentState' = [contentState EXCEPT
                        !.voiceModals = IF @ > 0 THEN @ - 1 ELSE 0,
                        !.timers = (@ \ {"removeModal"}) \cup {"closeWebsite"}]
  /\ UNCHANGED <<keystrokeCapture, extensionState, failedKeystrokeAuths, serverVars, besideFallbackVars>>

\* The 3-second timer of the close request: CLOSE_WEBSITE is sent and
\* handleCloseWebsite of the background script removes the tab, and the
\* content script with it.
CloseWebsiteTimer ==
  /\ ~contentState.websiteClosed
  /\ "closeWebsite" \in contentState.timers
  /\ contentState' = [contentState EXCEPT !.websiteClosed = TRUE,
                                          !.actualPassword = "",
                                          !.timers = {}]
  /\ UNCHANGED <<keystrokeCapture, extensionState, failedKeystrokeAuths, serverVars, besideFallbackVars>>

\* The handlers of the content script.
NextContent ==
  \/ HandlePasswordFieldFocus
  \/ HandleKeyDown
  \/ \E authenticated \in BOOLEAN : HandleAuthenticationResponse(authenticated)
  \/ \E withError \in BOOLEAN : HandleAuthenticationError(withError)
  \/ \E isVoiceAuthSuccessful \in BOOLEAN : VerifyVoice(isVoiceAuthSuccessful)
  \/ CloseVoiceModal
  \/ AutoLoginTimer
  \/ ClearPasswordTimer
  \/ RemoveModalTimer
  \/ CloseWebsiteTimer

NextFallback ==
  \/ \E outcome \in AuthOutcomes : ProcessAuthentication(outcome)
  \/ HandleVoiceAuthenticationSuccess
  \/ CloseVoiceAuthDialog
  \/ NextContent

SpecFallback == Init /\ [][NextFallback]_vars

\* The content script alone, with its timers firing: a timer that was set
\* runs unless the page is closed first.
SpecContent ==
  /\ Init
  /\ [][NextContent]_vars
  /\ WF_vars(AutoLoginTimer)
  /\ WF_vars(ClearPasswordTimer)
  /\ WF_vars(RemoveModalTimer)
  /\ WF_vars(CloseWebsiteTimer)

\* ------------------------------------------------------------------------
\* Registration in the extension popup
\* ------------------------------------------------------------------------

\* Most profiles the popup is left to store.
MaxProfiles == 2

\* What the user types: profile names, passwords for training (one of them
\* shorter than 8 characters) and lines typed into the keystroke input.
ProfileNames == {"", "work"}
TrainingPasswords == {"hunter2", "correct horse", "battery staple"}
TypedLines == TrainingPasswords \cup {""}

\* A sample that is stored whatever was typed.
SampleAlwaysMatches(value, password) == TRUE

\* processSample: input.value === popupState.registrationData.password.
SampleMatches(value, password) == value = password

\* startRegistration.
StartRegistration ==
  /\ popupState' = [popupState EXCEPT !.registrationData = NoRegistrationData,
                                      !.status = "started"]
  /\ UNCHANGED <<serverVars, besidePopupVars>>

\* closeRegistration.
CloseRegistration ==
  /\ popupState' = [popupState EXCEPT !.registrationData = NoRegistrationData,
                                      !.status = "closed"]
  /\ UNCHANGED <<serverVars, besidePopupVars>>

\* startKeystrokeTraining with the profile name and the password of the form.
StartKeystrokeTraining(profileName, password) ==
  /\ popupState' =
       IF profileName = "" THEN [popupState EXCEPT !.status = "name required"]
       ELSE IF password = "" \/ Len(password) < 8
       THEN [popupState EXCEPT !.status = "password too short"]
       ELSE [popupState EXCEPT
               !.registrationData = [profileName |-> profileName,
                                     password |-> password,
                                     keystrokeSamples |-> <<>>,
                                     currentStep |-> 2],
               !.input = [value |-> "", disabled |-> FALSE],
               !.status = "training"]
  /\ UNCHANGED <<serverVars, besidePopupVars>>

\* captureKeystroke for the Enter key after the line `value` was typed, and
\* processSample with it; completeKeystrokeTraining disables the input at
\* the fifth sample.
CaptureKeystroke(value) ==
  /\ ~popupState.input.disabled
  /\ popupState.registrationData.currentStep = 2
  /\ LET data == popupState.registrationData
         samples == Append(data.keystrokeSamples, [password |-> value])
     IN  popupState' =
           IF SampleMatches(value, data.password)
           THEN [popupState EXCEPT
                   !.registrationData.keystrokeSamples = samples,
                   !.input = [value |-> "",
                              disabled |-> Len(samples) >= REGISTRATION_SAMPLES],
                   !.status = IF Len(samples) >= REGISTRATION_SAMPLES
                              THEN "training complete" ELSE "sample captured"]
           ELSE [popupState EXCEPT !.input.value = "", !.status = "password mismatch"]
  /\ UNCHANGED <<serverVars, besidePopupVars>>

\* resetKeystrokeTraining.
ResetKeystrokeTraining ==
  /\ popupState' = [popupState EXCEPT !.registrationData.keystrokeSamples = <<>>,
                                      !.input = [value |-> "", disabled |-> FALSE],
                                      !.status = "reset"]
  /\ UNCHANGED <<serverVars, besidePopupVars>>

\* startVoiceTraining: showRegistrationStep(3).
StartVoiceTraining ==
  /\ popupState' = [popupState EXCEPT !.registrationData.currentStep = 3,
                                      !.status = "voice"]
  /\ UNCHANGED <<serverVars, besidePopupVars>>

\* completeRegistration (also behind skipVoiceTraining): with fewer than 5
\* samples it throws and the error is reported; otherwise the model is
\* trained on the samples, the profile is stored and closeRegistration runs.
CompleteRegistration ==
  /\ Len(popupState.storedProfiles) < MaxProfiles
  /\ LET data == popupState.registrationData
     IN  popupState' =
           IF Len(data.keystrokeSamples) < REGISTRATION_SAMPLES
           THEN [popupState EXCEPT !.status = "Need at least 5 keystroke samples for training"]
           ELSE [popupState EXCEPT
                   !.storedProfiles = Append(@, [name |-> data.profileName,
                                                 password |-> data.password,
                                                 samples |-> data.keystrokeSamples]),
                   !.registrationData = NoRegistrationData,
                   !.status = "profile created"]
  /\ UNCHANGED <<serverVars, besidePopupVars>>

NextPopup ==
  \/ StartRegistration
  \/ CloseRegistration
  \/ \E profileName \in ProfileNames, password \in TrainingPasswords :
       StartKeystrokeTraining(profileName, password)
  \/ \E value \in TypedLines : CaptureKeystroke(value)
  \/ ResetKeystrokeTraining
  \/ StartVoiceTraining
  \/ CompleteRegistration

SpecPopup == Init /\ [][NextPopup]_vars

\* ------------------------------------------------------------------------
\* ------------------------------------------------------------------------
\* Threshold calibration on any list of reconstruction errors
\* ------------------------------------------------------------------------

\* Most reconstruction errors of a calibration.
MaxErrors == 3

\* Reconstruction errors: NaN, zero, below the default threshold, the
\* default threshold, and above it.
ErrorValues == {NaN, 0, Lit(1, 100), AUTOENCODER_AUTH_THRESHOLD, Lit(1, 10)}
ErrorLists == UNION {[1..n -> ErrorValues] : n \in 1..MaxErrors}

\* The threshold calibration of the train-model route on the reconstruction
\* errors of the original samples: the threshold written to model.json.
CalibrateServer ==
  /\ \E errors \in ErrorLists :
       \E c \in PercentileCandidates(errors, Percentile95Index(Len(errors))) :
          resp' = [operation |-> "calibrate", trainer |-> "server",
                   reconstructionErrors |-> errors,
                   threshold |-> JsonNumber(ServerThreshold(c))]
  /\ UNCHANGED <<sampleFiles, modelFile, profiles, trainingLog, requests, pending, clientVars>>

\* The threshold calibration of trainKeystrokeBiometricModel: the threshold
\* of the model the profile store keeps.
CalibrateExt ==
  /\ \E errors \in ErrorLists :
       \E c \in PercentileCandidates(errors, Percentile95Index(Len(errors))) :
          resp' = [operation |-> "calibrate", trainer |-> "extension",
                   reconstructionErrors |-> errors,
                   threshold |-> JsonNumber(ExtThreshold(c))]
  /\ UNCHANGED <<sampleFiles, modelFile, profiles, trainingLog, requests, pending, clientVars>>

NextCalibrate == CalibrateServer \/ CalibrateExt

SpecCalibrate == Init /\ [][NextCalibrate]_vars

\* ------------------------------------------------------------------------
\* The loops of trainNetwork
\* ------------------------------------------------------------------------

\* Most samples of a training set and most epochs of a call.
MaxTrainingData == 3
MaxLoopEpochs == 2

\* The samples of a training set of n samples, named by their positions.
SuppliedOrder(n) == [k \in 1..n |-> k]

\* currentEpoch <= epochs
EpochsRemainInclusive(currentEpoch, epochs) == currentEpoch <= epochs

\* The condition of the outer loop: currentEpoch < epochs.
EpochsRemain(currentEpoch, epochs) == currentEpoch < epochs

\* A call of trainNetwork of the server ("server") or of the extension
\* library ("extension") with n samples: trainingLosses = [].
TrainNetworkCall(trainer, n, epochs) ==
  /\ ~trainNetworkState.running
  /\ trainNetworkState' =
       [NoTrainNetworkCall EXCEPT !.trainer = trainer, !.trainingData = n,
                                  !.epochs = epochs, !.running = TRUE]
  /\ UNCHANGED <<serverVars, besideLoopVars>>

\* The server's loop enters an epoch: for (const trainingSample of
\* trainingData) iterates the supplied list.
ServerEnterEpoch ==
  /\ trainNetworkState.running
  /\ trainNetworkState.trainer = "server"
  /\ ~trainNetworkState.inEpoch
  /\ EpochsRemain(trainNetworkState.currentEpoch, trainNetworkState.epochs)
  /\ trainNetworkState' =
       [trainNetworkState EXCEPT !.inEpoch = TRUE,
                                 !.shuffledData = SuppliedOrder(trainNetworkState.trainingData)]
  /\ UNCHANGED <<serverVars, besideLoopVars>>

\* The extension's loop enters an epoch: it iterates a copy of the list
\* sorted by a random comparator.
ExtEnterEpoch(shuffle) ==
  /\ trainNetworkState.running
  /\ trainNetworkState.trainer = "extension"
  /\ ~trainNetworkState.inEpoch
  /\ EpochsRemain(trainNetworkState.currentEpoch, trainNetworkState.epochs)
  /\ trainNetworkState' =
       [trainNetworkState EXCEPT
          !.inEpoch = TRUE,
          !.shuffledData = [k \in 1..trainNetworkState.trainingData |->
                              ShuffleIndex(shuffle, trainNetworkState.trainingData, k)]]
  /\ UNCHANGED <<serverVars, besideLoopVars>>

\* The body of the inner loop for the next sample: forward pass, loss, and
\* one call of updateNetworkWeights / performBackpropagation.
TrainOnSample ==
  /\ trainNetworkState.inEpoch
  /\ trainNetworkState.shuffledData # <<>>
  /\ trainNetworkState' =
       [trainNetworkState EXCEPT !.updates = Append(@, Head(trainNetworkState.shuffledData)),
                                 !.shuffledData = Tail(@)]
  /\ UNCHANGED <<serverVars, besideLoopVars>>

\* The end of an epoch: trainingLosses.push(averageEpochLoss) and
\* currentEpoch++.
FinishEpoch ==
  /\ trainNetworkState.inEpoch
  /\ trainNetworkState.shuffledData = <<>>
  /\ trainNetworkState' =
       [trainNetworkState EXCEPT !.trainingLosses = Append(@, trainNetworkState.currentEpoch),
                                 !.currentEpoch = @ + 1,
                                 !.inEpoch = FALSE]
  /\ UNCHANGED <<serverVars, besideLoopVars>>

\* return trainingLosses
ReturnTrainingLosses ==
  /\ trainNetworkState.running
  /\ ~trainNetworkState.inEpoch
  /\ ~EpochsRemain(trainNetworkState.currentEpoch, trainNetworkState.epochs)
  /\ trainNetworkState' = [trainNetworkState EXCEPT !.running = FALSE, !.returned = TRUE]
  /\ UNCHANGED <<serverVars, besideLoopVars>>

\* A step of the call in progress.
TrainNetworkStep ==
  \/ ServerEnterEpoch
  \/ \E shuffle \in Shuffles : ExtEnterEpoch(shuffle)
  \/ TrainOnSample
  \/ FinishEpoch
  \/ ReturnTrainingLosses

NextTrainNetwork ==
  \/ \E trainer \in {"server", "extension"}, n \in 1..MaxTrainingData,
        epochs \in 0..MaxLoopEpochs : TrainNetworkCall(trainer, n, epochs)
  \/ ServerEnterEpoch
  \/ \E shuffle \in Shuffles : ExtEnterEpoch(shuffle)
  \/ TrainOnSample
  \/ FinishEpoch
  \/ ReturnTrainingLosses

\* The call runs on one thread without interruption: a step that can be
\* taken is taken.
SpecTrainNetwork == Init /\ [][NextTrainNetwork]_vars /\ WF_vars(TrainNetworkStep)

\* ------------------------------------------------------------------------
\* Voice: the objects of a match
\* ------------------------------------------------------------------------

\* Objects are held in a list and referred to by their position in it; the
\* arrays of a profile are never written by the match and are held as
\* values.

\* The profile at voiceProfile itself in place of a copy of it.
NoSpread(objects, voiceProfile) == [objects |-> objects, ref |-> voiceProfile]

\* const normalizedProfile = { ...voiceProfile }: a new object with the
\* fields of the profile.
Spread(objects, voiceProfile) ==
  [objects |-> Append(objects, objects[voiceProfile]), ref |-> Len(objects) + 1]

\* normalizedProfile.<field> = value, when the condition holds.
AssignIf(heap, condition, field, value) ==
  IF condition
  THEN [heap EXCEPT !.objects = [@ EXCEPT ![heap.ref] = [@ EXCEPT ![field] = value]]]
  ELSE heap

\* applyPitchNormalization on the profile at voiceProfile.
applyPitchNormalization(objects, voiceProfile) ==
  AssignIf(Spread(objects, voiceProfile),
           Truthy(objects[voiceProfile].pitchMean) /\ Gt(objects[voiceProfile].pitchMean, 0),
           "pitchMean", MathLog(objects[voiceProfile].pitchMean))

\* applyTemporalNormalization on the profile at voiceProfile.
applyTemporalNormalization(objects, voiceProfile) ==
  AssignIf(
    AssignIf(Spread(objects, voiceProfile),
             Truthy(objects[voiceProfile].speakingRate)
               /\ Gt(objects[voiceProfile].speakingRate, 0),
             "speakingRate", MathLog(objects[voiceProfile].speakingRate)),
    Gt(objects[voiceProfile].zcrMean, 0),
    "zcrMean", MathLog(Add(objects[voiceProfile].zcrMean, One)))

\* applySpectralNormalization on the profile at voiceProfile.
applySpectralNormalization(objects, voiceProfile) ==
  AssignIf(
    AssignIf(
      AssignIf(Spread(objects, voiceProfile),
               Gt(objects[voiceProfile].energyMean, 0),
               "energyMean", MathLog(Add(objects[voiceProfile].energyMean, One))),
      Gt(objects[voiceProfile].rmsMean, 0),
      "rmsMean", MathLog(Add(objects[voiceProfile].rmsMean, One))),
    Gt(objects[voiceProfile].spectralCentroidMean, 0),
    "spectralCentroidMean", MathLog(objects[voiceProfile].spectralCentroidMean))

\* The six normalisations of calculateComprehensiveVoiceMatch, in the
\* order of the code: the objects afterwards and the six copies.
NormalizeBoth(objects, profile1, profile2) ==
  LET pitch1 == applyPitchNormalization(objects, profile1)
      pitch2 == applyPitchNormalization(pitch1.objects, profile2)
      tempo1 == applyTemporalNormalization(pitch2.objects, profile1)
      tempo2 == applyTemporalNormalization(tempo1.objects, profile2)
      spectral1 == applySpectralNormalization(tempo2.objects, profile1)
      spectral2 == applySpectralNormalization(spectral1.objects, profile2)
  IN [objects |-> spectral2.objects,
      pitchNormalized |-> <<pitch1.ref, pitch2.ref>>,
      tempoNormalized |-> <<tempo1.ref, tempo2.ref>>,
      spectralNormalized |-> <<spectral1.ref, spectral2.ref>>]

\* The profiles a match is called on: the optional pitch mean and speaking
\* rate present or not, the other means zero or positive.
HeapProfiles ==
  {VoiceProfile(m, pitch, centroid, v) @@ [speakingRate |-> rate] :
     m \in {<<>>, <<One, 2 * One>>}, pitch \in {Undefined, 2 * One},
     centroid \in {0, 2 * One}, v \in {0, Lit(1, 10)}, rate \in {Undefined, 2 * One}}

\* A call of calculateComprehensiveVoiceMatch on the profile objects
\* profile1 and profile2 of the list objects: it throws before any copy is
\* made, or normalises and compares.
CallVoiceMatch(objects, profile1, profile2) ==
  /\ ~voiceHeap.called
  /\ voiceHeap' =
       IF MissingMfccFeatures(objects[profile1], objects[profile2])
       THEN [objects |-> objects, called |-> TRUE, before |-> objects,
             profiles |-> <<profile1, profile2>>, thrown |-> TRUE,
             pitchNormalized |-> <<>>, tempoNormalized |-> <<>>,
             spectralNormalized |-> <<>>]
       ELSE [called |-> TRUE, before |-> objects,
             profiles |-> <<profile1, profile2>>, thrown |-> FALSE]
            @@ NormalizeBoth(objects, profile1, profile2)
  /\ UNCHANGED <<serverVars, besideHeapVars>>

\* A match of two profile objects, and a match of a profile object with
\* itself.
NextVoiceHeap ==
  \/ \E a \in HeapProfiles, b \in HeapProfiles : CallVoiceMatch(<<a, b>>, 1, 2)
  \/ \E a \in HeapProfiles : CallVoiceMatch(<<a>>, 1, 1)

SpecVoiceHeap == Init /\ [][NextVoiceHeap]_vars

\* ------------------------------------------------------------------------
\* Registration in the web component
\* ------------------------------------------------------------------------

\* What the user types as username and as passphrase.
UserIdentifiers == {"", "alice"}
UserPassphrases == {"", "tiger", "zebra"}

\* The outcome of trainModel: it resolves true or false, or it throws.
TrainModelOutcomes == {"success", "failure", "thrown"}

\* userPassphrase !== firstPassword
PassphraseMismatch(userPassphrase, firstPassword) == userPassphrase # firstPassword.value

\* onChange of the username input.
SetUserIdentifier(userIdentifier) ==
  /\ ~keystrokeCapture.showVoiceSetup
  /\ userIdentifier # keystrokeCapture.userIdentifier
  /\ keystrokeCapture' = [keystrokeCapture EXCEPT !.userIdentifier = userIdentifier]
  /\ UNCHANGED <<samplePassphrases, serverVars, besideRegistrationVars>>

\* onClick of the Authenticate button.
SwitchToAuth ==
  /\ ~keystrokeCapture.showVoiceSetup
  /\ keystrokeCapture' = [keystrokeCapture EXCEPT !.currentMode = "auth",
                                                  !.firstPassword = NoFirstPassword]
  /\ UNCHANGED <<samplePassphrases, serverVars, besideRegistrationVars>>

\* onClick of the Register button.
SwitchToRegister ==
  /\ ~keystrokeCapture.showVoiceSetup
  /\ keystrokeCapture' = [keystrokeCapture EXCEPT !.currentMode = "register"]
  /\ UNCHANGED <<samplePassphrases, serverVars, besideRegistrationVars>>

\* The state processRegistration leaves when the passphrase has passed the
\* comparison with the first password: trainModel stores the sample under
\* the index capturedSamples, and a stored sample is counted.
RegisterSample(state, userPassphrase, outcome) ==
  IF outcome # "success"
  THEN [state EXCEPT !.authResult = IF outcome = "thrown" THEN "training error" ELSE @]
  ELSE IF state.capturedSamples + 1 >= COMPONENT_SAMPLES_REQUIRED
  THEN [state EXCEPT !.capturedSamples = 0, !.firstPassword = NoFirstPassword,
                     !.showVoiceSetup = TRUE, !.authResult = "profile created"]
  ELSE [state EXCEPT !.capturedSamples = @ + 1, !.authResult = "sample captured"]

\* processRegistration, run on Enter in register mode with the passphrase
\* typed.
ProcessRegistration(userPassphrase, outcome) ==
  /\ ~keystrokeCapture.showVoiceSetup
  /\ keystrokeCapture.currentMode = "register"
  /\ IF keystrokeCapture.userIdentifier = "" \/ userPassphrase = ""
     THEN /\ keystrokeCapture' = [keystrokeCapture EXCEPT !.authResult = "incomplete"]
          /\ UNCHANGED samplePassphrases
     ELSE IF ~keystrokeCapture.firstPassword.isNull
             /\ PassphraseMismatch(userPassphrase, keystrokeCapture.firstPassword)
     THEN /\ keystrokeCapture' = [keystrokeCapture EXCEPT !.authResult = "mismatch"]
          /\ UNCHANGED samplePassphrases
     ELSE /\ keystrokeCapture' =
               RegisterSample(
                 IF keystrokeCapture.firstPassword.isNull
                 THEN [keystrokeCapture EXCEPT !.firstPassword = FirstPassword(userPassphrase)]
                 ELSE keystrokeCapture,
                 userPassphrase, outcome)
          /\ samplePassphrases' =
               IF outcome = "success"
               THEN Append(SubSeq(samplePassphrases, 1, keystrokeCapture.capturedSamples),
                           userPassphrase)
               ELSE samplePassphrases
  /\ UNCHANGED <<serverVars, besideRegistrationVars>>

\* handleVoiceProfileComplete, called by the voice registration.
HandleVoiceProfileComplete ==
  /\ keystrokeCapture.showVoiceSetup
  /\ keystrokeCapture' = [keystrokeCapture EXCEPT !.showVoiceSetup = FALSE,
                                                  !.currentMode = "auth",
                                                  !.authResult = "complete"]
  /\ UNCHANGED <<samplePassphrases, serverVars, besideRegistrationVars>>

NextRegistration ==
  \/ \E userIdentifier \in UserIdentifiers : SetUserIdentifier(userIdentifier)
  \/ SwitchToAuth
  \/ SwitchToRegister
  \/ \E userPassphrase \in UserPassphrases, outcome \in TrainModelOutcomes :
       ProcessRegistration(userPassphrase, outcome)
  \/ HandleVoiceProfileComplete

SpecRegistration == Init /\ [][NextRegistration]_vars

\* ------------------------------------------------------------------------
\* The message listener of the background script
\* ------------------------------------------------------------------------

\* Most messages received in a behaviour.
MaxMessages == 2

\* The types whose case answers before the listener returns, those whose
\* handler awaits inside try/catch, and those whose handler awaits outside
\* any try; "UNKNOWN" stands for a type the switch has no case for.
SynchronousTypes == {"GET_EXTENSION_STATE", "VOICE_AUTH_RESULT", "UNKNOWN"}
GuardedTypes ==
  {"SET_ACTIVE_PROFILE", "FORM_DETECTED", "KEYSTROKE_DATA", "REGISTER_PROFILE",
   "GET_PROFILES", "DELETE_PROFILE", "CLOSE_WEBSITE"}
UnguardedTypes == {"PASSWORD_FIELD_FOCUSED", "AUTHENTICATION_RESULT", "VOICE_AUTH_REQUIRED"}
MessageTypes == SynchronousTypes \cup GuardedTypes \cup UnguardedTypes

\* safeResponse: sendResponse is called (the context is valid from the
\* listener's check on).
safeResponse(message) == [message EXCEPT !.responses = @ + 1]

\* clearTimeoutAndRespond: clearTimeout on a timer that has fired does
\* nothing.
clearTimeoutAndRespond(message) ==
  safeResponse([message EXCEPT !.timeout = IF @ = "armed" THEN "cleared" ELSE @])

\* The handler answers before its first await: the synchronous cases, and
\* handleKeystrokeData when no profile is active.
AnswersBeforeAwait(type, noProfile) ==
  type \in SynchronousTypes \/ (type = "KEYSTROKE_DATA" /\ noProfile)

\* The listener on a message, up to its return: with an invalidated context
\* it answers and returns; otherwise it arms the timeout and runs the case
\* of the type up to the handler's first await.
ReceiveMessage(type, contextValid, noProfile) ==
  /\ Len(messages) < MaxMessages
  /\ messages' =
       Append(messages,
         IF ~contextValid
         THEN [type |-> type, responses |-> 1, timeout |-> "none", handler |-> "none"]
         ELSE IF AnswersBeforeAwait(type, noProfile)
         THEN clearTimeoutAndRespond(
                [type |-> type, responses |-> 0, timeout |-> "armed", handler |-> "returned"])
         ELSE [type |-> type, responses |-> 0, timeout |-> "armed", handler |-> "suspended"])
  /\ UNCHANGED <<serverVars, besideMessageVars>>

\* The handler of message i resumes and runs to its end: it answers, from
\* its body or from its catch block; a handler without try whose await
\* rejects ends without answering.
HandlerSettles(i, outcome) ==
  /\ i \in DOMAIN messages
  /\ messages[i].handler = "suspended"
  /\ messages' =
       [messages EXCEPT ![i] =
          IF outcome = "rejected" /\ @.type \in UnguardedTypes
          THEN [@ EXCEPT !.handler = "rejected"]
          ELSE clearTimeoutAndRespond([@ EXCEPT !.handler = "returned"])]
  /\ UNCHANGED <<serverVars, besideMessageVars>>

\* The 5-second timeout of message i fires.
TimeoutFires(i) ==
  /\ i \in DOMAIN messages
  /\ messages[i].timeout = "armed"
  /\ messages' = [messages EXCEPT ![i] = safeResponse([@ EXCEPT !.timeout = "fired"])]
  /\ UNCHANGED <<serverVars, besideMessageVars>>

NextMessages ==
  \/ \E type \in MessageTypes, contextValid \in BOOLEAN, noProfile \in BOOLEAN :
       ReceiveMessage(type, contextValid, noProfile)
  \/ \E i \in 1..MaxMessages, outcome \in {"fulfilled", "rejected"} : HandlerSettles(i, outcome)
  \/ \E i \in 1..MaxMessages : TimeoutFires(i)

\* An armed timer fires unless it is cleared; a handler's await may never
\* settle.
SpecMessages ==
  Init /\ [][NextMessages]_vars /\ WF_vars(\E i \in 1..MaxMessages : TimeoutFires(i))

\* ------------------------------------------------------------------------
\* serialize and deserialize of SimpleAutoencoder (server and extension)
\* on the arrays they hand over
\* ------------------------------------------------------------------------

\* Most autoencoders and serialized values kept at a time, and most
\* in-place updates one array is taken through.
MaxAutoencoders == 3
MaxSerialized == 2
MaxWeightUpdates == 2

\* The array-valued fields of an autoencoder and the key of the serialized
\* data that each is returned under.
WeightFields ==
  {"encoderWeights", "bottleneckWeights", "decoderWeights",
   "encoderBiases", "bottleneckBiases", "decoderBiases"}
SerializedKey(field) ==
  CASE field = "encoderWeights" -> "weights1"
    [] field = "bottleneckWeights" -> "weights2"
    [] field = "decoderWeights" -> "weights3"
    [] field = "encoderBiases" -> "biases1"
    [] field = "bottleneckBiases" -> "biases2"
    [] OTHER -> "biases3"
SerializedKeys == {SerializedKey(field) : field \in WeightFields}
FieldOfKey(key) == CHOOSE field \in WeightFields : SerializedKey(field) = key

\* The place of each field's array among six arrays made one after another.
FieldOrder(field) ==
  CASE field = "encoderWeights" -> 1
    [] field = "bottleneckWeights" -> 2
    [] field = "decoderWeights" -> 3
    [] field = "encoderBiases" -> 4
    [] field = "bottleneckBiases" -> 5
    [] OTHER -> 6

\* The constructor: six new arrays after the existing objects (an array is
\* kept as the number of in-place updates it has had), and the object
\* whose fields refer to them.
ConstructedArrays(objects) == objects \o [i \in 1..Cardinality(WeightFields) |-> 0]
Constructed(objects) == [field \in WeightFields |-> Len(objects) + FieldOrder(field)]

\* serialize(): an object whose weights1..biases3 are this.encoderWeights
\* .. this.decoderBiases, the arrays themselves.
serializeArrays(autoencoder) ==
  [key \in SerializedKeys |-> autoencoder[FieldOfKey(key)]]

\* deserialize(savedData): the fields of the new autoencoder are assigned
\* savedData.weights1 .. savedData.biases3, the arrays themselves; the
\* arrays its constructor made are dropped.
deserializeArrays(savedData) ==
  [field \in WeightFields |-> savedData[SerializedKey(field)]]

\* new SimpleAutoencoder(...)
ConstructAutoencoder ==
  /\ Len(autoencoderHeap.autoencoders) < MaxAutoencoders
  /\ autoencoderHeap' =
       [autoencoderHeap EXCEPT
          !.objects = ConstructedArrays(autoencoderHeap.objects),
          !.autoencoders = Append(@, Constructed(autoencoderHeap.objects)),
          !.savedData = Append(@, 0)]
  /\ UNCHANGED <<serverVars, besideSnapshotVars>>

\* autoencoder.serialize()
CallSerialize(a) ==
  /\ a \in DOMAIN autoencoderHeap.autoencoders
  /\ Len(autoencoderHeap.serialized) < MaxSerialized
  /\ autoencoderHeap' =
       [autoencoderHeap EXCEPT
          !.serialized = Append(@, serializeArrays(autoencoderHeap.autoencoders[a]))]
  /\ UNCHANGED <<serverVars, besideSnapshotVars>>

\* SimpleAutoencoder.deserialize(savedData)
CallDeserialize(d) ==
  /\ d \in DOMAIN autoencoderHeap.serialized
  /\ Len(autoencoderHeap.autoencoders) < MaxAutoencoders
  /\ autoencoderHeap' =
       [autoencoderHeap EXCEPT
          !.objects = ConstructedArrays(autoencoderHeap.objects),
          !.autoencoders =
             Append(@, deserializeArrays(autoencoderHeap.serialized[d])),
          !.savedData = Append(@, d)]
  /\ UNCHANGED <<serverVars, besideSnapshotVars>>

\* updateNetworkWeights of autoencoder a (one training step): every entry
\* of its six arrays is updated with +=, in place.
UpdateNetworkWeights(a) ==
  /\ a \in DOMAIN autoencoderHeap.autoencoders
  /\ \A field \in WeightFields :
       autoencoderHeap.objects[autoencoderHeap.autoencoders[a][field]] < MaxWeightUpdates
  /\ autoencoderHeap' =
       [autoencoderHeap EXCEPT
          !.objects =
             [o \in DOMAIN autoencoderHeap.objects |->
                IF \E field \in WeightFields : autoencoderHeap.autoencoders[a][field] = o
                THEN autoencoderHeap.objects[o] + 1
                ELSE autoencoderHeap.objects[o]]]
  /\ UNCHANGED <<serverVars, besideSnapshotVars>>

NextSnapshot ==
  \/ ConstructAutoencoder
  \/ \E a \in 1..MaxAutoencoders : CallSerialize(a)
  \/ \E d \in 1..MaxSerialized : CallDeserialize(d)
  \/ \E a \in 1..MaxAutoencoders : UpdateNetworkWeights(a)

SpecSnapshot == Init /\ [][NextSnapshot]_vars

\* ------------------------------------------------------------------------
\* Stored profiles and the lifecycle events of the background script
\* ------------------------------------------------------------------------

\* Most profiles stored at a time, and the tabs that send events.
MaxStoredProfiles == 3
MaxTabs == 2
ProfileIds == 1..MaxStoredProfiles
TabIds == 1..MaxTabs

\* let extensionState = { isActive: false, authFailureCount: 0,
\* isVoiceAuthRequired: false, ... }: the object the script starts with and
\* the one onInstalled assigns.
InitialExtensionState ==
  [authFailureCount |-> 0, isActive |-> FALSE, isVoiceAuthRequired |-> FALSE]

\* chrome.runtime.onInstalled (the extension is installed or updated, or the
\* browser is updated): the listener does not look at the reason; it sets
\* profiles: {}, the default settings and activeProfile: null, and resets
\* extensionState.
OnInstalled ==
  /\ backgroundProfiles' = EmptyStorage
  /\ extensionState' = InitialExtensionState
  /\ UNCHANGED <<serverVars, besideStorageVars>>

\* chrome.runtime.onStartup: the background script has been loaded anew
\* (extensionState is the initial object) and the stored activeProfile, if
\* there is one, becomes the current profile.
OnStartup ==
  /\ backgroundProfiles' =
       [backgroundProfiles EXCEPT
          !.currentProfile = backgroundProfiles.activeProfile,
          !.lastActiveTab = NoTab]
  /\ extensionState' = InitialExtensionState
  /\ UNCHANGED <<serverVars, besideStorageVars>>

\* handleFormDetected: extensionState.lastActiveTab = tab.id
HandleFormDetected(tab) ==
  /\ backgroundProfiles' = [backgroundProfiles EXCEPT !.lastActiveTab = tab]
  /\ UNCHANGED <<extensionState, serverVars, besideStorageVars>>

\* handlePasswordFieldFocused: with an active profile that exists the
\* extension is activated for it.
HandlePasswordFieldFocused ==
  /\ backgroundProfiles.activeProfile # NoProfileId
  /\ backgroundProfiles.activeProfile \in backgroundProfiles.profiles
  /\ backgroundProfiles' =
       [backgroundProfiles EXCEPT !.currentProfile = backgroundProfiles.activeProfile]
  /\ extensionState' = [extensionState EXCEPT !.isActive = TRUE, !.authFailureCount = 0]
  /\ UNCHANGED <<serverVars, besideStorageVars>>

\* handleSetActiveProfile(profileId): a profile id that is not stored is
\* answered with an error; null, or a stored id, becomes currentProfile and
\* the stored activeProfile.
HandleSetActiveProfile(profileId) ==
  /\ profileId # NoProfileId => profileId \in backgroundProfiles.profiles
  /\ backgroundProfiles' = [backgroundProfiles EXCEPT !.currentProfile = profileId,
                                                      !.activeProfile = profileId]
  /\ UNCHANGED <<extensionState, serverVars, besideStorageVars>>

\* handleRegisterProfile: profiles[generateProfileId()] = {...} and
\* chrome.storage.local.set({ profiles }).
HandleRegisterProfile(profileId) ==
  /\ profileId \notin backgroundProfiles.profiles
  /\ backgroundProfiles' = [backgroundProfiles EXCEPT !.profiles = @ \cup {profileId}]
  /\ UNCHANGED <<extensionState, serverVars, besideStorageVars>>

\* handleDeleteProfile(profileId): a stored profile is deleted, and if it
\* was the active one activeProfile and currentProfile become null.
HandleDeleteProfile(profileId) ==
  /\ profileId \in backgroundProfiles.profiles
  /\ backgroundProfiles' =
       IF backgroundProfiles.activeProfile = profileId
       THEN [backgroundProfiles EXCEPT !.profiles = @ \ {profileId},
                                       !.activeProfile = NoProfileId,
                                       !.currentProfile = NoProfileId]
       ELSE [backgroundProfiles EXCEPT !.profiles = @ \ {profileId}]
  /\ UNCHANGED <<extensionState, serverVars, besideStorageVars>>

\* chrome.tabs.onUpdated with status 'loading' for the last active tab:
\* the state is reset, the profile kept.
TabUpdated(tabId) ==
  /\ tabId = backgroundProfiles.lastActiveTab
  /\ extensionState' = InitialExtensionState
  /\ UNCHANGED <<backgroundProfiles, serverVars, besideStorageVars>>

\* chrome.tabs.onRemoved for the last active tab.
TabRemoved(tabId) ==
  /\ tabId = backgroundProfiles.lastActiveTab
  /\ backgroundProfiles' = [backgroundProfiles EXCEPT !.lastActiveTab = NoTab]
  /\ extensionState' = [extensionState EXCEPT !.isActive = FALSE, !.authFailureCount = 0]
  /\ UNCHANGED <<serverVars, besideStorageVars>>

NextLifecycle ==
  \/ OnInstalled
  \/ OnStartup
  \/ \E tab \in TabIds : HandleFormDetected(tab)
  \/ HandlePasswordFieldFocused
  \/ \E profileId \in ProfileIds \cup {NoProfileId} : HandleSetActiveProfile(profileId)
  \/ \E profileId \in ProfileIds : HandleRegisterProfile(profileId)
  \/ \E profileId \in ProfileIds : HandleDeleteProfile(profileId)
  \/ \E tabId \in TabIds : TabUpdated(tabId)
  \/ \E tabId \in TabIds : TabRemoved(tabId)

SpecLifecycle == Init /\ [][NextLifecycle]_vars

\* ------------------------------------------------------------------------
\* safeMessageSend of the content script
\* ------------------------------------------------------------------------

\* Most calls of safeMessageSend followed, and the largest maxRetries. Every
\* caller in the content script leaves maxRetries at its default.
MaxSendCalls == 3
MaxRetries == 3
DEFAULT_MAX_RETRIES == 2

\* What an attempt comes to at once: the context is invalid, sendMessage
\* throws, or the message is sent. What the response callback of a sent
\* message finds: a response, or chrome.runtime.lastError with a message
\* that includes 'context invalidated' or one that does not.
AttemptOutcomes == {"invalidContext", "exception", "sent"}
ResponseOutcomes == {"response", "lastError", "contextInvalidated"}

\* attempts < maxRetries, with a larger comparison to set against it.
RetriesLeftInclusive(attempts, maxRetries) == attempts <= maxRetries
RetriesLeft(attempts, maxRetries) == attempts < maxRetries

\* setTimeout(attemptSend, 1000 * attempts); return, and
\* if (callback) callback(...) of a call that has a callback.
ScheduleRetry(send, outcome) ==
  [send EXCEPT !.pending = "timer", !.lastOutcome = outcome]
InvokeCallback(send, outcome, argument) ==
  [send EXCEPT !.pending = "done", !.lastOutcome = outcome,
               !.callbacks = Append(@, [kind |-> argument, attempt |-> send.attempts])]

\* attemptSend up to the point where it returns: attempts++, then the
\* context check and the call of chrome.runtime.sendMessage in its try.
attemptSend(send, outcome) ==
  LET counted == [send EXCEPT !.attempts = @ + 1]
  IN  IF outcome = "sent"
      THEN [counted EXCEPT !.pending = "sent", !.lastOutcome = outcome]
      ELSE IF RetriesLeft(counted.attempts, counted.maxRetries)
           THEN ScheduleRetry(counted, outcome)
           ELSE InvokeCallback(counted, outcome, "error")

\* The callback given to chrome.runtime.sendMessage.
responseCallback(send, outcome) ==
  IF outcome = "response"
  THEN InvokeCallback(send, outcome, "response")
  ELSE IF RetriesLeft(send.attempts, send.maxRetries) /\ outcome # "contextInvalidated"
       THEN ScheduleRetry(send, outcome)
       ELSE InvokeCallback(send, outcome, "error")

\* safeMessageSend(message, callback, maxRetries): let attempts = 0 and the
\* first attemptSend(). The calls share no state, so one is followed at a
\* time.
SafeMessageSend(maxRetries, outcome) ==
  /\ messageSend.pending \in {"none", "done"}
  /\ messageSend.calls < MaxSendCalls
  /\ messageSend' =
       attemptSend([NoMessageSend EXCEPT !.calls = messageSend.calls + 1,
                                         !.maxRetries = maxRetries],
                   outcome)
  /\ UNCHANGED <<serverVars, besideSendVars>>

\* The timer of a retry fires: attemptSend again.
RetryTimerFires(outcome) ==
  /\ messageSend.pending = "timer"
  /\ messageSend' = attemptSend(messageSend, outcome)
  /\ UNCHANGED <<serverVars, besideSendVars>>

\* chrome calls the callback of sendMessage.
ResponseArrives(outcome) ==
  /\ messageSend.pending = "sent"
  /\ messageSend' = responseCallback(messageSend, outcome)
  /\ UNCHANGED <<serverVars, besideSendVars>>

RetryTimer == \E outcome \in AttemptOutcomes : RetryTimerFires(outcome)
Response == \E outcome \in ResponseOutcomes : ResponseArrives(outcome)

NextSend ==
  \/ \E maxRetries \in 1..MaxRetries, outcome \in AttemptOutcomes :
       SafeMessageSend(maxRetries, outcome)
  \/ \E outcome \in AttemptOutcomes : RetryTimerFires(outcome)
  \/ \E outcome \in ResponseOutcomes : ResponseArrives(outcome)

\* A timer that was set fires, and chrome calls the callback of a message
\* that was sent (with lastError set if no response came).
SpecSend ==
  /\ Init
  /\ [][NextSend]_vars
  /\ WF_vars(RetryTimer)
  /\ WF_vars(Response)

\* Properties of the train-model route (specification Spec)
\* ------------------------------------------------------------------------

\* Number of sample files stored for a user.
StoredCount(files) == Cardinality({i \in DOMAIN files : files[i].exists})

\* The users whose model.json exists.
Enrolled == {u \in Users : modelFile[u] # NoModel}

\* Number of the logged original samples the authenticate route accepts
\* against the user's model.
AcceptedOriginals(u) ==
  Cardinality({k \in DOMAIN trainingLog[u].samples :
                 RouteAuthenticate(modelFile[u], trainingLog[u].samples[k]).authenticated})

\* C2: after a successful training run on n original samples, at least 95%
\* of those originals are accepted by the authenticate route against the
\* model produced.
C2_OriginalsAccepted ==
  \A u \in Enrolled :
    100 * AcceptedOriginals(u) >= 95 * Len(trainingLog[u].samples)

\* C3: a train request that leaves fewer than the minimum number of samples
\* stored is answered with an error, not with success, and produces no
\* model.
C3_InsufficientSamplesRejected ==
  [][\A u \in Users :
       (sampleFiles'[u] # sampleFiles[u]
        /\ StoredCount(sampleFiles'[u]) < MINIMUM_TRAINING_SAMPLES)
       => (resp' # TrainSuccessResponse /\ modelFile'[u] = NoModel)]_vars

\* The percentile value of a run is degenerate: NaN, missing, or <= 0.
DegeneratePercentile(c) == c \in {NaN, Undefined, Null} \/ c <= 0

\* The users a trainer has produced a model for, and the threshold stored
\* in that model.
Trained == {u \in Users : trainingLog[u] # NoLog}
StoredThreshold(u) ==
  IF trainingLog[u].trainer = "server" THEN modelFile[u].threshold
  ELSE profiles[u].threshold

\* C7: whenever the calibrated percentile value is NaN, missing or <= 0,
\* the stored threshold is exactly the configured default threshold.
C7_DefaultThresholdOnDegenerate ==
  \A u \in Trained :
    DegeneratePercentile(trainingLog[u].percentileValue)
      => StoredThreshold(u) = AUTOENCODER_AUTH_THRESHOLD

\* v is the element at index floor(0.95 * n) of the ascending order of the
\* n errors: at most that many errors are smaller, more than that many are
\* not larger.
IsPercentileValue(errors, v) ==
  /\ Cardinality({i \in DOMAIN errors : errors[i] < v}) <= (95 * Len(errors)) \div 100
  /\ (95 * Len(errors)) \div 100 < Cardinality({i \in DOMAIN errors : errors[i] <= v})

\* C6: the threshold stored in a trained model equals
\* max(defaultThreshold, 1.2 * c), c being the element at index
\* floor(0.95 * n) of the ascending-sorted reconstruction errors of the n
\* original samples.
C6_ThresholdRule ==
  \A u \in Trained :
    ~HasNaN(trainingLog[u].reconstructionErrors)
      => \E i \in DOMAIN trainingLog[u].reconstructionErrors :
           /\ IsPercentileValue(trainingLog[u].reconstructionErrors,
                                trainingLog[u].reconstructionErrors[i])
           /\ StoredThreshold(u) =
                (IF (trainingLog[u].reconstructionErrors[i] * 12) \div 10
                      > AUTOENCODER_AUTH_THRESHOLD
                 THEN (trainingLog[u].reconstructionErrors[i] * 12) \div 10
                 ELSE AUTOENCODER_AUTH_THRESHOLD)

\* ------------------------------------------------------------------------
\* Properties of the authenticators (specification SpecAuth)
\* ------------------------------------------------------------------------

\* The reported error is a number and is at most the threshold.
WithinThreshold(mse, threshold) == mse \notin {NaN, Null, Undefined} /\ mse <= threshold

FitLength(v, d) == [i \in 1..d |-> IF i <= Len(v) THEN v[i] ELSE 0]

\* C4: for a live vector of any length, each authenticator decides as it
\* decides for the vector padded with zeros or truncated to the model's
\* input dimension.
C4_LengthTolerated ==
  [][\A u \in Users, f \in LiveVectors :
       /\ (Authenticate(u, f) /\ modelFile[u] # NoModel)
            => resp'.authenticated =
                 RouteAuthenticate(modelFile[u],
                   FitLength(RequestFeatures(f),
                             modelFile[u].autoencoder.inputSize)).authenticated
       /\ (ExtAuthenticate(u, f) /\ profiles[u] # NoModel)
            => resp'.authenticated =
                 authenticateKeystrokePattern(
                   FitLength(f, profiles[u].autoencoder.inputSize),
                   profiles[u]).authenticated
       /\ (BgAuthenticate(u, f) /\ profiles[u] # NoModel)
            => resp'.authenticated =
                 performKeystrokeAuthentication(
                   FitLength(f, profiles[u].autoencoder.inputSize),
                   profiles[u]).authenticated]_vars

\* clamp(x, 0, 1); NaN stays NaN.
Clamp01(x) ==
  IF IsNaN(x) THEN NaN ELSE IF x < 0 THEN 0 ELSE IF x > One THEN One ELSE x

\* clamp(1 - mse / denominator, 0, 1) for a reported error; the route
\* reports a NaN error and a NaN confidence as null.
ConfidenceOver(mse, denominator) ==
  IF mse = Null THEN Null ELSE Clamp01(Sub(One, Div(mse, denominator)))

\* 2 * max(maxError, 2 * threshold)
LargerDenominator(maxError, threshold) ==
  MulInt(MathMax(maxError, MulInt(threshold, 2)), 2)

\* 2 * maxError when a non-zero maximum error is recorded, else
\* 4 * threshold.
RecordedDenominator(maxError, threshold) ==
  IF maxError \in {Null, Undefined, NaN, 0} THEN 4 * threshold ELSE 2 * maxError

\* C10 as stated: the confidence of a decision equals
\* clamp(1 - MSE / (2 * max(maxError, 2 * threshold)), 0, 1).
C10_ConfidenceUsesLarger ==
  [][\A u \in Users, f \in LiveVectors :
       /\ (Authenticate(u, f) /\ modelFile[u] # NoModel)
            => resp'.confidence =
                 JsonNumber(ConfidenceOver(resp'.mse,
                   LargerDenominator(modelFile[u].trainingStats.maxError,
                                     modelFile[u].threshold)))
       /\ ((ExtAuthenticate(u, f) \/ BgAuthenticate(u, f)) /\ profiles[u] # NoModel)
            => resp'.confidence =
                 ConfidenceOver(resp'.reconstructionError,
                   LargerDenominator(profiles[u].trainingStats.maximumError,
                                     profiles[u].threshold))]_vars

\* C10 as amended: the confidence equals clamp(1 - MSE / d, 0, 1) where d is
\* twice the recorded maximum training error when one is recorded and
\* non-zero, and four times the threshold otherwise.
C10_ConfidenceUsesRecorded ==
  [][\A u \in Users, f \in LiveVectors :
       /\ (Authenticate(u, f) /\ modelFile[u] # NoModel)
            => resp'.confidence =
                 JsonNumber(ConfidenceOver(resp'.mse,
                   RecordedDenominator(modelFile[u].trainingStats.maxError,
                                       modelFile[u].threshold)))
       /\ ((ExtAuthenticate(u, f) \/ BgAuthenticate(u, f)) /\ profiles[u] # NoModel)
            => resp'.confidence =
                 ConfidenceOver(resp'.reconstructionError,
                   RecordedDenominator(profiles[u].trainingStats.maximumError,
                                       profiles[u].threshold))]_vars

\* The authenticate route has answered with a confidence strictly between
\* 0 and 1 for a model whose recorded maximum error is below twice its
\* threshold.
C10_Witness ==
  /\ "method" \in DOMAIN resp
  /\ resp.confidence \notin {Null, 0, One}
  /\ \E u \in Users :
       /\ modelFile[u] # NoModel
       /\ modelFile[u].trainingStats.maxError # Null
       /\ 0 < modelFile[u].trainingStats.maxError
       /\ modelFile[u].trainingStats.maxError < 2 * modelFile[u].threshold

\* ------------------------------------------------------------------------
\* Properties of the normalisers (SpecNorm) and of serialization (SpecSerial)
\* ------------------------------------------------------------------------

\* All samples of the set have the same length.
EqualLength(samples) == \A k \in DOMAIN samples : Len(samples[k]) = Len(samples[1])

\* C8: for a non-empty set of equal-length samples, every normalised value
\* lies in [0,1], and a feature with the same value in every sample is
\* mapped to exactly 0.
C8_NormalizedInUnitRange ==
  (resp # NoResponse /\ resp.operation = "normalize" /\ EqualLength(resp.samples))
    => \A k \in DOMAIN resp.samples : \A i \in DOMAIN resp.samples[k] :
         /\ resp.result.normalized[k][i] \in 0..One
         /\ (\A j \in DOMAIN resp.samples : resp.samples[j][i] = resp.samples[k][i])
              => resp.result.normalized[k][i] = 0

\* A normaliser has handled two equal-length samples with one feature that
\* varies and one that does not.
C8_Witness ==
  /\ resp # NoResponse
  /\ resp.operation = "normalize"
  /\ EqualLength(resp.samples)
  /\ Len(resp.samples) > 1
  /\ \E i \in DOMAIN resp.samples[1] : resp.samples[1][i] # resp.samples[2][i]
  /\ \E i \in DOMAIN resp.samples[1] :
       /\ resp.samples[1][i] = resp.samples[2][i]
       /\ resp.samples[1][i] # 0
  /\ \E k \in DOMAIN resp.samples : \E i \in DOMAIN resp.samples[k] :
       resp.result.normalized[k][i] = One

\* C9: the autoencoder restored by deserialize from serialize has the same
\* three dimensions, weight matrices and bias vectors as the original, and
\* predict gives the same output on it.
C9_RoundTripLossless ==
  (resp # NoResponse /\ resp.operation = "roundtrip")
    => /\ resp.restored.inputDimensions = resp.original.inputDimensions
       /\ resp.restored.hiddenLayerSize = resp.original.hiddenLayerSize
       /\ resp.restored.bottleneckDimensions = resp.original.bottleneckDimensions
       /\ resp.restored.encoderWeights = resp.original.encoderWeights
       /\ resp.restored.bottleneckWeights = resp.original.bottleneckWeights
       /\ resp.restored.decoderWeights = resp.original.decoderWeights
       /\ resp.restored.encoderBiases = resp.original.encoderBiases
       /\ resp.restored.bottleneckBiases = resp.original.bottleneckBiases
       /\ resp.restored.decoderBiases = resp.original.decoderBiases
       /\ resp.after = resp.before

\* A round trip has been made on an autoencoder whose prediction for the
\* input is a vector of numbers, not all equal.
C9_Witness ==
  /\ resp # NoResponse
  /\ resp.operation = "roundtrip"
  /\ Len(resp.before) = Dim
  /\ \A i \in DOMAIN resp.before : ~IsNaN(resp.before[i])
  /\ \E i, j \in DOMAIN resp.before : resp.before[i] # resp.before[j]

\* ------------------------------------------------------------------------
\* Properties of concurrent requests (specification SpecConc)
\* ------------------------------------------------------------------------

\* The requests in flight for a user that are inside their section: a train
\* request that has written its sample and not yet written the model, an
\* authentication request at its read of the model.
InSection(u) ==
  {i \in DOMAIN pending :
     /\ pending[i].username = u
     /\ pending[i].pc \in {"loadSamples", "writeModel", "readModel"}}

\* C5: for one identity, at most one request is inside its load/write
\* section at any time: a training request never overlaps an authentication
\* request or another training request of the same identity.
C5_OneRequestPerIdentity ==
  \A u \in Users :
    \/ Cardinality(InSection(u)) <= 1
    \/ \A i \in InSection(u) : pending[i].kind = "auth"


\* ------------------------------------------------------------------------
\* Properties of the authenticate route's paths
\* ------------------------------------------------------------------------

\* The request reaches the model-type dispatch: it is JSON, names a user
\* whose model.json exists, and its features can be read.
ReachesDispatch(requestBody) ==
  /\ requestBody.json = "valid"
  /\ requestBody.username # ""
  /\ ModelFileOf(requestBody) # NoModel
  /\ ~(Len(requestBody.features) = 0 /\ requestBody.holdTimes = "number")

\* The response comes from no verification path and does not authenticate.
Unverified(response) == ~Has(response, "method") /\ ~response.authenticated

\* C11: the route chooses the verification path from the modelType tag
\* alone: a model tagged "autoencoder" is verified by the autoencoder path
\* (and rejected unverified if it carries no autoencoder), a legacy
\* statistical model (untagged or tagged "statistical") only by the
\* statistical path, and a model with any other tag is rejected without
\* being verified by either path.
C11_DispatchOnTag ==
  [][\A requestBody \in RouteRequests :
       (Post(requestBody) /\ ReachesDispatch(requestBody)) =>
         IF HasTag(ModelFileOf(requestBody), "autoencoder")
         THEN IF Has(ModelFileOf(requestBody), "autoencoder")
              THEN Has(resp', "method") /\ resp'.method = "autoencoder"
              ELSE Unverified(resp')
         ELSE IF ~Has(ModelFileOf(requestBody), "modelType")
                 \/ HasTag(ModelFileOf(requestBody), "statistical")
         THEN Has(resp', "method") => resp'.method = "statistical"
         ELSE Unverified(resp')]_vars

\* C12: a request that names a user is answered "No model found for user"
\* exactly when no model.json exists for that user.
C12_ModelNotFoundIffNoModel ==
  [][\A requestBody \in RouteRequests :
       (Post(requestBody) /\ requestBody.json = "valid" /\ requestBody.username # "") =>
         (resp'.reason = RouteNoModelResponse.reason
            <=> ModelFileOf(requestBody) = NoModel)]_vars

\* C13: every request to the authenticate route, on every path, ends with a
\* response that carries an authenticated flag and a reason; no exception
\* leaves the handler.
C13_AlwaysStructuredResult ==
  [][\A requestBody \in RouteRequests :
       Post(requestBody) =>
         /\ ~IsThrown(resp')
         /\ Has(resp', "authenticated") /\ resp'.authenticated \in BOOLEAN
         /\ Has(resp', "reason")
         /\ resp'.reason \in {"Username is required", "Authentication system error",
                              "No model found for user", "Authentication successful",
                              "Reconstruction error too high",
                              "MSE exceeds percentile threshold"}]_vars

\* An exception thrown while a stored model was in use has been caught and
\* answered.
C13_Witness ==
  /\ \E u \in Users : modelFile[u] # NoModel
  /\ resp = RouteNoModelResponse

\* ------------------------------------------------------------------------
\* Properties of fitting
\* ------------------------------------------------------------------------

\* The sample list is empty or its vectors differ in length.
Unfittable(samples) ==
  Len(samples) = 0 \/ \E j, k \in DOMAIN samples : Len(samples[j]) # Len(samples[k])

\* C14: fitting normalisation parameters fails, returning no parameters,
\* when the sample list is empty and when the sample vectors do not all have
\* the same length.
C14_FitFailsOnBadSamples ==
  resp # NoResponse => (Unfittable(resp.samples) => resp.failed /\ resp.params = <<>>)

\* ------------------------------------------------------------------------
\* Properties of training on identical samples
\* ------------------------------------------------------------------------

\* Fitted normalisation parameters with min = max for every feature.
DegenerateParams(params) ==
  \A i \in DOMAIN params.min : params.min[i] = params.max[i]

\* C15: when the training samples are identical so that the fitted
\* normalisation has min = max for every feature, training fails and no
\* model is emitted: no stored model carries such parameters.
C15_NoModelFromDegenerateSet ==
  \A u \in Enrolled : ~DegenerateParams(modelFile[u].normalizationParams)

\* ------------------------------------------------------------------------
\* Properties of the voice functions
\* ------------------------------------------------------------------------

\* C18: aggregation fails, returning no profile, on zero frames; on one or
\* more frames it returns a profile whose MFCC mean and variance vectors
\* have the MFCC length of the frames.
C18_AggregateEmptyFails ==
  ("operation" \in DOMAIN resp /\ resp.operation = "aggregate") =>
    IF Len(resp.frames) = 0 THEN IsThrown(resp.result)
    ELSE /\ ~IsThrown(resp.result)
         /\ \A k \in DOMAIN resp.frames :
              /\ Len(resp.result.mfccMean) = Len(resp.frames[k].mfcc)
              /\ Len(resp.result.mfccVariance) = Len(resp.frames[k].mfcc)

\* Two frames with MaxMfcc coefficients have been aggregated.
C18_Witness ==
  /\ "operation" \in DOMAIN resp /\ resp.operation = "aggregate"
  /\ Len(resp.frames) = MaxFrames
  /\ ~IsThrown(resp.result)
  /\ Len(resp.result.mfccMean) = MaxMfcc
  /\ resp.result.mfccVariance[1] > 0

\* C16: voice matching is symmetric: for two profiles that both carry MFCC
\* means, the overall similarity of (A, B) equals that of (B, A).
C16_MatchSymmetric ==
  ("operation" \in DOMAIN resp /\ resp.operation = "match"
   /\ ~LacksMfcc(resp.profile1) /\ ~LacksMfcc(resp.profile2)) =>
    /\ ~IsThrown(resp.forward) /\ ~IsThrown(resp.backward)
    /\ resp.forward.overallSimilarity = resp.backward.overallSimilarity

\* Two different profiles with MFCC vectors of different lengths, one of
\* them without pitch, have been compared, with a similarity strictly
\* between 0 and 1.
C16_Witness ==
  /\ "operation" \in DOMAIN resp /\ resp.operation = "match"
  /\ ~LacksMfcc(resp.profile1) /\ ~LacksMfcc(resp.profile2)
  /\ Len(resp.profile1.mfccMean) < Len(resp.profile2.mfccMean)
  /\ resp.profile1.pitchMean = Undefined /\ resp.profile2.pitchMean # Undefined
  /\ resp.profile1.spectralCentroidMean # resp.profile2.spectralCentroidMean
  /\ resp.forward.overallSimilarity > 0
  /\ resp.forward.overallSimilarity < One

\* C17: the match fails, returning no similarity result, whenever either
\* profile has no MFCC means or an empty MFCC-means vector.
C17_MissingMfccFails ==
  ("operation" \in DOMAIN resp /\ resp.operation = "match"
   /\ (LacksMfcc(resp.profile1) \/ LacksMfcc(resp.profile2))) =>
    /\ IsThrown(resp.forward)
    /\ ~Has(resp.forward, "overallSimilarity")

\* A profile with MFCC means has been compared with one whose MFCC-means
\* vector is empty, and the comparison failed.
C17_Witness ==
  /\ "operation" \in DOMAIN resp /\ resp.operation = "match"
  /\ ~LacksMfcc(resp.profile1)
  /\ Has(resp.profile2, "mfccMean") /\ Len(resp.profile2.mfccMean) = 0
  /\ IsThrown(resp.forward)

\* ------------------------------------------------------------------------
\* Properties of the keystroke feature extractors
\* ------------------------------------------------------------------------

\* C19: every feature vector an extractor produces has the same fixed
\* length of PASSWORD_LENGTH * 3 + 1 = 34, however many keys were typed.
C19_FixedFeatureLength ==
  ("operation" \in DOMAIN resp /\ resp.operation = "extract") =>
    Len(resp.features) = FeatureCount

\* ------------------------------------------------------------------------
\* Properties of the voice fallback (specification SpecFallback)
\* ------------------------------------------------------------------------

\* A step in which the component opens its voice dialog.
DialogOpens == ~keystrokeCapture.showVoiceAuthDialog /\ keystrokeCapture'.showVoiceAuthDialog

\* A step in which the content script shows a voice modal.
ModalOpens == contentState'.voiceModals > contentState.voiceModals

\* C20: the voice-authentication dialog is opened when, and only when, the
\* count of failed keystroke authentications since the last success has
\* reached 2, and a successful authentication (by keystrokes or by voice)
\* resets the failure count to 0; the component's counter is that count, and
\* the content script's counter is never below it.
C20_VoiceFallbackAfterTwoFailures ==
  [][/\ DialogOpens => failedKeystrokeAuths'.component >= 2
     /\ ModalOpens => failedKeystrokeAuths'.content >= 2
     /\ (/\ failedKeystrokeAuths'.component > failedKeystrokeAuths.component
         /\ failedKeystrokeAuths'.component >= 2) => keystrokeCapture'.showVoiceAuthDialog
     /\ (/\ failedKeystrokeAuths'.content > failedKeystrokeAuths.content
         /\ failedKeystrokeAuths'.content >= 2) => ModalOpens
     /\ (ProcessAuthentication("authenticated") \/ HandleVoiceAuthenticationSuccess)
          => keystrokeCapture'.authFailureCount = 0
     /\ (HandleAuthenticationResponse(TRUE) \/ VerifyVoice(TRUE))
          => /\ contentState'.authFailureCount = 0
             /\ extensionState'.authFailureCount = 0
     /\ keystrokeCapture'.authFailureCount = failedKeystrokeAuths'.component
     /\ contentState'.authFailureCount >= failedKeystrokeAuths'.content
     /\ extensionState'.authFailureCount <= failedKeystrokeAuths'.content]_vars

\* ------------------------------------------------------------------------
\* Properties of the content script with its timers (specification SpecContent)
\* ------------------------------------------------------------------------

\* A step in which the tab is closed.
TabCloses == ~contentState.websiteClosed /\ contentState'.websiteClosed

\* A step in which the timers that lead to the close request are started.
LockdownStarts ==
  /\ "removeModal" \notin contentState.timers
  /\ "removeModal" \in contentState'.timers

\* C21: once the failed-authentication count of the content script reaches 5
\* the CLOSE_WEBSITE request is eventually sent (the tab is closed), and the
\* tab is closed only through the timers that a count of 5 or more has
\* started.
C21_LockdownAfterFiveFailures ==
  /\ (contentState.authFailureCount >= 5) ~> contentState.websiteClosed
  /\ [][/\ LockdownStarts => contentState'.authFailureCount >= 5
        /\ TabCloses => "closeWebsite" \in contentState.timers]_vars

\* No authentication is in progress in the content script: it captures no
\* keystrokes, shows no voice modal and has no timer pending.
NoAuthenticationInProgress ==
  /\ ~contentState.isCapturing
  /\ contentState.voiceModals = 0
  /\ contentState.timers = {}

\* C22: a captured password is always eventually cleared from memory: a state
\* with no authentication in progress that holds a captured password leads to
\* one where contentState.actualPassword is empty.
C22_PasswordEventuallyCleared ==
  (NoAuthenticationInProgress /\ contentState.actualPassword # "")
    ~> (contentState.actualPassword = "")

\* ------------------------------------------------------------------------
\* Properties of the popup's registration (specification SpecPopup)
\* ------------------------------------------------------------------------

\* Every sample of the list was typed as the given password.
AllTypedAs(samples, password) ==
  \A i \in 1..Len(samples) : samples[i].password = password

\* C23: keystrokeSamples never has more than 5 entries, every entry's
\* password is registrationData.password, every stored profile was trained
\* from exactly 5 samples typed as its registration password, and
\* completeRegistration stores no profile from fewer than 5 samples.
C23_ProfileFromFiveMatchingSamples ==
  /\ Len(popupState.registrationData.keystrokeSamples) <= 5
  /\ AllTypedAs(popupState.registrationData.keystrokeSamples,
                popupState.registrationData.password)
  /\ \A i \in 1..Len(popupState.storedProfiles) :
       /\ Len(popupState.storedProfiles[i].samples) = 5
       /\ AllTypedAs(popupState.storedProfiles[i].samples,
                     popupState.storedProfiles[i].password)
  /\ popupState.status = "Need at least 5 keystroke samples for training"
       => Len(popupState.registrationData.keystrokeSamples) < 5

\* A profile was stored, and a registration with too few samples was refused
\* afterwards.
C23_Witness ==
  /\ Len(popupState.storedProfiles) > 0
  /\ popupState.status = "Need at least 5 keystroke samples for training"
  /\ Len(popupState.registrationData.keystrokeSamples) > 0

\* ------------------------------------------------------------------------
\* Properties of the routes on usernames that are paths (specification SpecPaths)
\* ------------------------------------------------------------------------

\* What is stored for an identity: its sample files and its model.
StoredFor(username) ==
  <<sampleFiles[DirectoryOf(username)], modelFile[DirectoryOf(username)]>>

\* C24: a train or authenticate request for identity A never creates or
\* modifies the stored samples or Model of another identity B, and is
\* answered from no Model but one that a request for A wrote, for every pair
\* of distinct identity strings.
C24_IdentitiesIndependent ==
  [][\A a \in Identities :
       /\ (\E n \in 0..MaxSampleCount : TrainAs(a, FullVector(One), n, 1))
            => \A b \in Identities \ {a} :
                 /\ sampleFiles'[DirectoryOf(b)] = sampleFiles[DirectoryOf(b)]
                 /\ modelFile'[DirectoryOf(b)] = modelFile[DirectoryOf(b)]
       /\ (\E f \in {FullVector(One), ShortVector} : AuthenticateAs(a, f))
            => /\ \A b \in Identities : StoredFor(b)' = StoredFor(b)
               /\ modelFile[DirectoryOf(a)] # NoModel
                    => modelFile[DirectoryOf(a)].username = a]_vars

\* ------------------------------------------------------------------------
\* The server's and the extension's authenticators on one Model
\* (specification SpecAuth)
\* ------------------------------------------------------------------------

\* A persisted object has a field when JSON holds a value for it.
FieldPresent(obj, name) == Has(obj, name) /\ obj[name] # Undefined

\* A profile of the extension as the authenticate route reads it: the
\* fields the profile lacks read as undefined.
AsSavedModelData(profile) ==
  [profile EXCEPT !.trainingStats = @ @@ [maxError |-> Undefined]]

\* The route's answer and the extension's answer agree in the reconstruction
\* error, the decision and the confidence.
SameAnswer(routeAnswer, extAnswer) ==
  /\ ~IsThrown(extAnswer)
  /\ routeAnswer.reconstructionError = JsonNumber(extAnswer.reconstructionError)
  /\ routeAnswer.authenticated = extAnswer.authenticated
  /\ routeAnswer.confidence = JsonNumber(extAnswer.confidence)

\* C25: for the same persisted Model and the same live sample the
\* authenticate route and the extension's authenticators compute the same
\* reconstruction error, the same accept decision and the same confidence,
\* and the Model of either trainer has the field of the training statistics
\* that the other side reads.
C25_ExtensionSameAsServer ==
  [][\A u \in Users, f \in LiveVectors \ {<<>>} :
       /\ (Authenticate(u, f) /\ modelFile[u] # NoModel)
            => /\ SameAnswer(resp', authenticateKeystrokePattern(f, modelFile[u]))
               /\ SameAnswer(resp', performKeystrokeAuthentication(f, modelFile[u]))
               /\ FieldPresent(modelFile[u].trainingStats, "maximumError")
       /\ ((ExtAuthenticate(u, f) \/ BgAuthenticate(u, f)) /\ profiles[u] # NoModel)
            => /\ SameAnswer(RouteAuthenticate(AsSavedModelData(profiles[u]), f), resp')
               /\ FieldPresent(profiles[u].trainingStats, "maxError")]_vars

\* ------------------------------------------------------------------------
\* Properties of the threshold calibration (specification SpecCalibrate)
\* ------------------------------------------------------------------------

\* C26: the threshold of every Model a trainer emits is a number, never NaN
\* or undefined, and is at least the configured default threshold, for
\* every list of reconstruction errors, those with NaN entries and those of
\* zeros only included.
C26_ThresholdAtLeastDefault ==
  (Has(resp, "operation") /\ resp.operation = "calibrate")
    => /\ resp.threshold \notin {NaN, Undefined, Null}
       /\ resp.threshold >= AUTOENCODER_AUTH_THRESHOLD

\* The extension's trainer has calibrated on errors with a NaN among them
\* and stored the default threshold, and so it has on errors all below it.
C26_Witness ==
  /\ Has(resp, "operation") /\ resp.operation = "calibrate"
  /\ resp.trainer = "extension"
  /\ HasNaN(resp.reconstructionErrors)
  /\ \E i \in DOMAIN resp.reconstructionErrors : resp.reconstructionErrors[i] = 0
  /\ resp.threshold = AUTOENCODER_AUTH_THRESHOLD

\* ------------------------------------------------------------------------
\* Properties of trainNetwork (specification SpecTrainNetwork)
\* ------------------------------------------------------------------------

\* The supplied order repeated once per epoch.
SuppliedOrderPerEpoch(n, epochs) == [t \in 1..(n * epochs) |-> ((t - 1) % n) + 1]

\* The updates of epoch e (0-based) of a call with n samples.
UpdatesOfEpoch(updates, n, e) == [k \in 1..n |-> updates[e * n + k]]

\* C27 as stated: a call of trainNetwork with a non-empty sample list and a
\* finite number of epochs returns, and when it returns it has made exactly
\* one weight update per sample per epoch in the supplied sample order and
\* its loss history has exactly one entry per epoch.
C27_TrainInSuppliedOrder ==
  /\ trainNetworkState.running ~> trainNetworkState.returned
  /\ [](trainNetworkState.returned
          => /\ trainNetworkState.updates =
                  SuppliedOrderPerEpoch(trainNetworkState.trainingData,
                                        trainNetworkState.epochs)
             /\ Len(trainNetworkState.trainingLosses) = trainNetworkState.epochs)

\* C27 as amended: the call returns, and when it returns it has made
\* exactly one weight update per sample in every epoch and its loss history
\* has exactly one entry per epoch; the server's trainer updates in the
\* supplied order, the extension's in an order it shuffles anew each epoch.
C27_TrainOncePerSamplePerEpoch ==
  /\ trainNetworkState.running ~> trainNetworkState.returned
  /\ [](trainNetworkState.returned
          => /\ Len(trainNetworkState.updates) =
                  trainNetworkState.trainingData * trainNetworkState.epochs
             /\ \A e \in 0..(trainNetworkState.epochs - 1) :
                  \A sample \in 1..trainNetworkState.trainingData :
                    Cardinality({k \in 1..trainNetworkState.trainingData :
                                   UpdatesOfEpoch(trainNetworkState.updates,
                                                  trainNetworkState.trainingData, e)[k]
                                     = sample}) = 1
             /\ trainNetworkState.trainer = "server"
                  => trainNetworkState.updates =
                       SuppliedOrderPerEpoch(trainNetworkState.trainingData,
                                             trainNetworkState.epochs)
             /\ Len(trainNetworkState.trainingLosses) = trainNetworkState.epochs)

\* The extension's trainNetwork has returned from two epochs over three
\* samples whose updates were not made in the supplied order.
C27_Witness ==
  /\ trainNetworkState.returned
  /\ trainNetworkState.trainer = "extension"
  /\ trainNetworkState.epochs = 2
  /\ trainNetworkState.trainingData = 3
  /\ Len(trainNetworkState.updates) = 6
  /\ trainNetworkState.updates # SuppliedOrderPerEpoch(3, 2)

\* ------------------------------------------------------------------------
\* Properties of the objects of a voice match (specification SpecVoiceHeap)
\* ------------------------------------------------------------------------

\* The copy differs from the profile it was made of in the targeted fields
\* at most.
ChangesOnly(copy, original, targets) ==
  /\ DOMAIN copy = DOMAIN original
  /\ \A field \in DOMAIN original \ targets : copy[field] = original[field]

\* C28: after a match every field of both profile objects has the value it
\* had before the call, and each of the three normalisation passes has
\* changed only the fields it targets, in its own copy.
C28_MatchLeavesInputsAlone ==
  voiceHeap.called
    => /\ \A address \in DOMAIN voiceHeap.before :
            voiceHeap.objects[address] = voiceHeap.before[address]
       /\ \A k \in DOMAIN voiceHeap.pitchNormalized :
            /\ voiceHeap.pitchNormalized[k] \notin DOMAIN voiceHeap.before
            /\ ChangesOnly(voiceHeap.objects[voiceHeap.pitchNormalized[k]],
                           voiceHeap.before[voiceHeap.profiles[k]], {"pitchMean"})
       /\ \A k \in DOMAIN voiceHeap.tempoNormalized :
            /\ voiceHeap.tempoNormalized[k] \notin DOMAIN voiceHeap.before
            /\ ChangesOnly(voiceHeap.objects[voiceHeap.tempoNormalized[k]],
                           voiceHeap.before[voiceHeap.profiles[k]],
                           {"speakingRate", "zcrMean"})
       /\ \A k \in DOMAIN voiceHeap.spectralNormalized :
            /\ voiceHeap.spectralNormalized[k] \notin DOMAIN voiceHeap.before
            /\ ChangesOnly(voiceHeap.objects[voiceHeap.spectralNormalized[k]],
                           voiceHeap.before[voiceHeap.profiles[k]],
                           {"energyMean", "rmsMean", "spectralCentroidMean"})

\* A match of a profile object with itself has normalised its pitch mean,
\* its speaking rate and its energy mean in six copies.
C28_Witness ==
  /\ voiceHeap.called
  /\ ~voiceHeap.thrown
  /\ voiceHeap.profiles = <<1, 1>>
  /\ Len(voiceHeap.objects) = 7
  /\ voiceHeap.objects[voiceHeap.pitchNormalized[1]].pitchMean # voiceHeap.before[1].pitchMean
  /\ voiceHeap.objects[voiceHeap.tempoNormalized[2]].speakingRate
       # voiceHeap.before[1].speakingRate
  /\ voiceHeap.objects[voiceHeap.spectralNormalized[2]].energyMean
       # voiceHeap.before[1].energyMean

\* ------------------------------------------------------------------------
\* Properties of the web registration (specification SpecRegistration)
\* ------------------------------------------------------------------------

\* C29: in the web registration a sample whose passphrase differs from that
\* of the first counted sample of the registration in progress is rejected
\* and does not increase the count of captured samples, so that all samples
\* counted toward a profile were typed with one passphrase, whatever
\* samples are submitted, modes switched and usernames edited.
C29_SamplesOfOnePassphrase ==
  [][/\ \A userPassphrase \in UserPassphrases, outcome \in TrainModelOutcomes :
          (/\ ProcessRegistration(userPassphrase, outcome)
           /\ keystrokeCapture.capturedSamples > 0
           /\ userPassphrase # samplePassphrases[1])
            => /\ keystrokeCapture'.capturedSamples = keystrokeCapture.capturedSamples
               /\ samplePassphrases' = samplePassphrases
     /\ \A i \in 1..keystrokeCapture'.capturedSamples :
          samplePassphrases'[i] = samplePassphrases'[1]]_vars

\* ------------------------------------------------------------------------
\* Properties of the background script's listener (specification SpecMessages)
\* ------------------------------------------------------------------------

\* C30: the background script answers each message it receives exactly
\* once: sendResponse is called for it, and is never called a second time,
\* whatever the type of the message and whenever its handler finishes
\* relative to the 5-second timeout, also when the handler fails.
C30_AnsweredExactlyOnce ==
  /\ [](\A i \in DOMAIN messages : messages[i].responses <= 1)
  /\ \A i \in 1..MaxMessages :
       (Len(messages) >= i) ~> (Len(messages) >= i /\ messages[i].responses = 1)

\* ------------------------------------------------------------------------
\* Properties of the popup's and the content script's extractors
\* (specification SpecExtract)
\* ------------------------------------------------------------------------

\* C31: for the same keystroke trace the popup's extractor (enrollment) and
\* the content script's extractor (authentication) return vectors of the
\* same length in which each index holds the same kind of feature.
C31_ExtractorsAgree ==
  (Has(resp, "operation") /\ resp.operation = "extract"
     /\ resp.extractor \in {"popup", "content"})
    => LET keystrokeBuffer == KeystrokeBuffer(1, resp.trace.keys, resp.trace.unreleased)
       IN /\ Len(PopupExtractKeystrokeFeatures(keystrokeBuffer))
               = Len(ContentExtractKeystrokeFeatures(keystrokeBuffer))
          /\ PopupFeatureKinds(keystrokeBuffer) = ContentFeatureKinds(keystrokeBuffer)


\* C32: at most one voice-authentication modal is open in the page, for
\* every interleaving of the content script's own failure handling and the
\* SHOW_VOICE_AUTH_MODAL messages of the background script.
C32_AtMostOneVoiceModal == contentState.voiceModals <= 1


\* The lock-out of the fifth failure is under way: the timer that removes
\* the modal, or the timer of the close request it starts, is pending.
\* Nothing cancels either, so the count was 5 or more when the first was set.
LockoutPending == contentState.timers \cap {"removeModal", "closeWebsite"} # {}

\* C33: once the failed-authentication count has reached 5, no automatic
\* login is performed on the page: autoCompleteLogin does not run while the
\* lock-out of the fifth failure is under way.
C33_NoAutoLoginAfterFiveFailures == [][AutoLoginTimer => ~LockoutPending]_vars


\* ------------------------------------------------------------------------
\* Properties of serialize and deserialize on shared arrays
\* (specification SpecSnapshot)
\* ------------------------------------------------------------------------

\* The contents of the arrays a serialized value refers to.
SerializedValue(heap, d) ==
  [key \in SerializedKeys |-> heap.objects[heap.serialized[d][key]]]

\* The arrays an autoencoder, and a serialized value, refers to.
ArraysOf(refs) == {refs[key] : key \in DOMAIN refs}

\* C34: a serialized autoencoder is an independent snapshot: a training
\* step of any autoencoder after serialize() leaves every value that
\* serialize() returned as it was, and an autoencoder built by deserialize()
\* shares no array with the data it was built from.
C34_SerializedIsSnapshot ==
  /\ [][(\E a \in 1..MaxAutoencoders : UpdateNetworkWeights(a))
         => \A d \in DOMAIN autoencoderHeap.serialized :
              SerializedValue(autoencoderHeap', d) = SerializedValue(autoencoderHeap, d)]_vars
  /\ [](\A a \in DOMAIN autoencoderHeap.autoencoders :
         autoencoderHeap.savedData[a] # 0
           => ArraysOf(autoencoderHeap.autoencoders[a])
                \cap ArraysOf(autoencoderHeap.serialized[autoencoderHeap.savedData[a]]) = {})

\* ------------------------------------------------------------------------
\* Properties of the stored profiles (specification SpecLifecycle)
\* ------------------------------------------------------------------------

\* C35: stored profiles survive the lifecycle events: the set of profiles
\* in storage changes only in a step of handleRegisterProfile or
\* handleDeleteProfile, and the stored activeProfile is null or the id of a
\* stored profile.
C35_ProfilesSurviveLifecycle ==
  /\ [][backgroundProfiles'.profiles # backgroundProfiles.profiles
          => \/ \E profileId \in ProfileIds : HandleRegisterProfile(profileId)
             \/ \E profileId \in ProfileIds : HandleDeleteProfile(profileId)]_vars
  /\ [](\/ backgroundProfiles.activeProfile = NoProfileId
        \/ backgroundProfiles.activeProfile \in backgroundProfiles.profiles)


\* ------------------------------------------------------------------------
\* Properties of safeMessageSend (specification SpecSend)
\* ------------------------------------------------------------------------

\* The call has ended: nothing of it is pending.
SendEnded == messageSend.pending = "done"

\* C36: a call of safeMessageSend with a callback and a positive maxRetries
\* makes at most maxRetries attempts and then stops, and invokes the
\* callback exactly once: never twice, once when the call has ended, with
\* the response if the last attempt was answered and with an error object
\* otherwise; and every call ends.
C36_BoundedRetriesOneCallback ==
  /\ [](/\ messageSend.attempts <= messageSend.maxRetries
        /\ Len(messageSend.callbacks) <= 1
        /\ SendEnded <=> Len(messageSend.callbacks) = 1
        /\ SendEnded =>
             /\ messageSend.callbacks[1].attempt = messageSend.attempts
             /\ messageSend.callbacks[1].kind =
                  (IF messageSend.lastOutcome = "response" THEN "response" ELSE "error"))
  /\ (messageSend.pending \in {"timer", "sent"}) ~> SendEnded

\* A call with maxRetries 2 or more has used every attempt and ended with
\* an error object for the callback.
C36_Witness ==
  /\ SendEnded
  /\ messageSend.maxRetries >= DEFAULT_MAX_RETRIES
  /\ messageSend.attempts = messageSend.maxRetries
  /\ messageSend.callbacks = <<[kind |-> "error", attempt |-> messageSend.maxRetries]>>

====
